---- MODULE Spec2Model ----
(***************************************************************************)
(* transmission-tui: the RPC client (src/src/rpc.rs), the RPC worker and   *)
(* the event reducer (src/src/tui.rs) as one state machine.                *)
(*                                                                         *)
(* Text that the code inspects character by character (error messages,     *)
(* torrent names, magnet input) is a sequence of one-character strings.    *)
(* Option<T> is a sequence of length at most one.  A JSON object is a      *)
(* function from key strings to values.                                    *)
(***************************************************************************)
EXTENDS Integers, Sequences, FiniteSets, TLC

\* ------------------------------------------------------------------ bounds

\* commands handled after the initial Refresh: those the reducer sends and
\* the worker's automatic polls
MaxCommands == 1
\* the largest request tag with which a client call may start
MaxTag == 3
\* the latest instant the clock reaches, in seconds
MaxNow == 3
\* the longest text typed or pasted into a Filter or Prompt buffer
MaxBuffer == 2
\* the last row of the preferences form the cursor is moved to (rows from 0)
MaxField == 2
\* events the input reader may have waiting on the event channel
MaxEvents == 2

\* --------------------------------------------------------------- constants

MethodNotFoundCode == -32601
LegacyErrorCode == -1
DefaultRatioLimit == 200
DefaultIdleLimit == 30
DefaultPeerLimitPerTorrent == 50
DefaultPeerLimitGlobal == 200
\* StatusMessage::from_update and App::arm_delete: durations in seconds
InfoSeconds == 4
SuccessSeconds == 5
WarningSeconds == 6
ErrorSeconds == 8
ArmSeconds == 2

\* ----------------------------------------------------------------- options

None == <<>>
Some(x) == <<x>>
IsSome(o) == o /= <<>>
Unwrap(o) == o[1]

Ok(v) == [ok |-> TRUE, value |-> v]
Err(e) == [ok |-> FALSE, err |-> e]

\* ------------------------------------------------------------------- text

UpperToLower ==
    ("A" :> "a") @@ ("B" :> "b") @@ ("C" :> "c") @@ ("D" :> "d") @@ ("E" :> "e")
    @@ ("F" :> "f") @@ ("G" :> "g") @@ ("H" :> "h") @@ ("I" :> "i") @@ ("J" :> "j")
    @@ ("K" :> "k") @@ ("L" :> "l") @@ ("M" :> "m") @@ ("N" :> "n") @@ ("O" :> "o")
    @@ ("P" :> "p") @@ ("Q" :> "q") @@ ("R" :> "r") @@ ("S" :> "s") @@ ("T" :> "t")
    @@ ("U" :> "u") @@ ("V" :> "v") @@ ("W" :> "w") @@ ("X" :> "x") @@ ("Y" :> "y")
    @@ ("Z" :> "z")

to_ascii_lowercase(s) ==
    [i \in DOMAIN s |-> IF s[i] \in DOMAIN UpperToLower THEN UpperToLower[s[i]] ELSE s[i]]

contains(s, sub) ==
    \E i \in 0..(Len(s) - Len(sub)) : SubSeq(s, i + 1, i + Len(sub)) = sub

RECURSIVE trim_start(_)
trim_start(s) == IF s /= <<>> /\ Head(s) = " " THEN trim_start(Tail(s)) ELSE s

RECURSIVE trim_end(_)
trim_end(s) ==
    IF s /= <<>> /\ s[Len(s)] = " " THEN trim_end(SubSeq(s, 1, Len(s) - 1)) ELSE s

trim(s) == trim_end(trim_start(s))

MethodNotFoundText ==
    <<"m", "e", "t", "h", "o", "d", " ", "n", "o", "t", " ", "f", "o", "u", "n", "d">>

MethodNameNotRecognizedText ==
    <<"m", "e", "t", "h", "o", "d", " ", "n", "a", "m", "e", " ", "n", "o", "t", " ",
      "r", "e", "c", "o", "g", "n", "i", "z", "e", "d">>

SuccessText == <<"s", "u", "c", "c", "e", "s", "s">>

\* ------------------------------------------------------------ JSON values

Null == [json_null |-> TRUE]
EmptyObject == <<>>

Get(obj, key) == IF key \in DOMAIN obj THEN Some(obj[key]) ELSE None

\* serde field lookup: the renamed key first, then its aliases
GetAlias(obj, keys) ==
    IF \E i \in DOMAIN keys : keys[i] \in DOMAIN obj
    THEN Some(obj[keys[CHOOSE i \in DOMAIN keys :
                          /\ keys[i] \in DOMAIN obj
                          /\ \A j \in DOMAIN keys : keys[j] \in DOMAIN obj => i <= j]])
    ELSE None

unwrap_or(o, d) == IF IsSome(o) THEN Unwrap(o) ELSE d

\* ------------------------------------------------------------ preferences

EncryptionModes == <<"Prefer", "Allow", "Require">>

rpc_value(mode) ==
    CASE mode = "Prefer" -> "preferred"
      [] mode = "Allow" -> "allowed"
      [] mode = "Require" -> "required"

from_rpc(value) ==
    CASE value = "required" -> "Require"
      [] value = "allowed" -> "Allow"
      [] value = "tolerated" -> "Allow"
      [] OTHER -> "Prefer"

to_rpc_map(p) ==
    [download_dir |-> p.download_dir,
     start_added_torrents |-> p.start_when_added,
     speed_limit_up_enabled |-> p.speed_limit_up_enabled,
     speed_limit_up |-> p.speed_limit_up,
     speed_limit_down_enabled |-> p.speed_limit_down_enabled,
     speed_limit_down |-> p.speed_limit_down,
     seed_ratio_limited |-> p.seed_ratio_limited,
     seed_ratio_limit |-> p.seed_ratio_limit,
     idle_seeding_limit_enabled |-> p.idle_seeding_limit_enabled,
     idle_seeding_limit |-> p.idle_seeding_limit,
     peer_limit_per_torrent |-> p.peer_limit_per_torrent,
     peer_limit_global |-> p.peer_limit_global,
     encryption |-> rpc_value(p.encryption_mode),
     pex_enabled |-> p.pex_enabled,
     dht_enabled |-> p.dht_enabled,
     lpd_enabled |-> p.lpd_enabled,
     blocklist_enabled |-> p.blocklist_enabled,
     blocklist_url |-> unwrap_or(p.blocklist_url, <<>>)]

\* .max(0) as u32: on a non-negative value below 2^31 (every integer of this
\* model) the cast is the identity
ClampToU32(x) == IF x < 0 THEN 0 ELSE x

\* From<PreferencesResponse> for DaemonPreferences, over the decoded wire object
preferences_from_response(v) ==
    [download_dir |-> unwrap_or(GetAlias(v, <<"download_dir", "download-dir">>), <<>>),
     start_when_added |->
         unwrap_or(GetAlias(v, <<"start_added_torrents", "start-added-torrents">>), TRUE),
     speed_limit_up_enabled |->
         unwrap_or(GetAlias(v, <<"speed_limit_up_enabled", "speed-limit-up-enabled">>), FALSE),
     speed_limit_up |->
         ClampToU32(unwrap_or(GetAlias(v, <<"speed_limit_up", "speed-limit-up">>), 0)),
     speed_limit_down_enabled |->
         unwrap_or(GetAlias(v, <<"speed_limit_down_enabled", "speed-limit-down-enabled">>), FALSE),
     speed_limit_down |->
         ClampToU32(unwrap_or(GetAlias(v, <<"speed_limit_down", "speed-limit-down">>), 0)),
     seed_ratio_limited |->
         unwrap_or(GetAlias(v, <<"seed_ratio_limited", "seedRatioLimited">>), FALSE),
     seed_ratio_limit |->
         unwrap_or(GetAlias(v, <<"seed_ratio_limit", "seedRatioLimit">>), DefaultRatioLimit),
     idle_seeding_limit_enabled |->
         unwrap_or(GetAlias(v, <<"idle_seeding_limit_enabled", "idle-seeding-limit-enabled">>),
                   FALSE),
     idle_seeding_limit |->
         ClampToU32(unwrap_or(GetAlias(v, <<"idle_seeding_limit", "idle-seeding-limit">>),
                              DefaultIdleLimit)),
     peer_limit_per_torrent |->
         ClampToU32(unwrap_or(GetAlias(v, <<"peer_limit_per_torrent", "peer-limit-per-torrent">>),
                              DefaultPeerLimitPerTorrent)),
     peer_limit_global |->
         ClampToU32(unwrap_or(GetAlias(v, <<"peer_limit_global", "peer-limit-global">>),
                              DefaultPeerLimitGlobal)),
     encryption_mode |->
         IF "encryption" \in DOMAIN v THEN from_rpc(v["encryption"]) ELSE "Prefer",
     pex_enabled |-> unwrap_or(GetAlias(v, <<"pex_enabled", "pex-enabled">>), TRUE),
     dht_enabled |-> unwrap_or(GetAlias(v, <<"dht_enabled", "dht-enabled">>), TRUE),
     lpd_enabled |-> unwrap_or(GetAlias(v, <<"lpd_enabled", "lpd-enabled">>), TRUE),
     blocklist_enabled |->
         unwrap_or(GetAlias(v, <<"blocklist_enabled", "blocklist-enabled">>), FALSE),
     blocklist_url |->
         LET u == GetAlias(v, <<"blocklist_url", "blocklist-url">>)
         IN  IF IsSome(u) /\ Unwrap(u) /= <<>> THEN u ELSE None]

PREFERENCE_FIELDS ==
    <<"download_dir", "start_added_torrents", "speed_limit_up", "speed_limit_up_enabled",
      "speed_limit_down", "speed_limit_down_enabled", "seed_ratio_limited",
      "seed_ratio_limit", "idle_seeding_limit_enabled", "idle_seeding_limit",
      "peer_limit_per_torrent", "peer_limit_global", "encryption", "pex_enabled",
      "dht_enabled", "lpd_enabled", "blocklist_enabled", "blocklist_url">>

\* ------------------------------------------------- rpc.rs: wire translation

method_for_protocol(method, protocol) ==
    IF protocol = "Legacy"
    THEN CASE method = "session_get" -> "session-get"
           [] method = "session_set" -> "session-set"
           [] method = "session_stats" -> "session-stats"
           [] method = "torrent_get" -> "torrent-get"
           [] method = "torrent_add" -> "torrent-add"
           [] method = "torrent_remove" -> "torrent-remove"
           [] method = "torrent_start" -> "torrent-start"
           [] method = "torrent_stop" -> "torrent-stop"
           [] OTHER -> method
    ELSE method

legacy_session_field_name(field) ==
    CASE field = "download_dir" -> "download-dir"
      [] field = "start_added_torrents" -> "start-added-torrents"
      [] field = "speed_limit_up" -> "speed-limit-up"
      [] field = "speed_limit_up_enabled" -> "speed-limit-up-enabled"
      [] field = "speed_limit_down" -> "speed-limit-down"
      [] field = "speed_limit_down_enabled" -> "speed-limit-down-enabled"
      [] field = "seed_ratio_limited" -> "seedRatioLimited"
      [] field = "seed_ratio_limit" -> "seedRatioLimit"
      [] field = "idle_seeding_limit_enabled" -> "idle-seeding-limit-enabled"
      [] field = "idle_seeding_limit" -> "idle-seeding-limit"
      [] field = "peer_limit_per_torrent" -> "peer-limit-per-torrent"
      [] field = "peer_limit_global" -> "peer-limit-global"
      [] field = "pex_enabled" -> "pex-enabled"
      [] field = "dht_enabled" -> "dht-enabled"
      [] field = "lpd_enabled" -> "lpd-enabled"
      [] field = "blocklist_enabled" -> "blocklist-enabled"
      [] field = "blocklist_url" -> "blocklist-url"
      [] OTHER -> field

legacy_torrent_field_name(field) ==
    CASE field = "percent_done" -> "percentDone"
      [] field = "rate_download" -> "rateDownload"
      [] field = "rate_upload" -> "rateUpload"
      [] field = "upload_ratio" -> "uploadRatio"
      [] field = "size_when_done" -> "sizeWhenDone"
      [] field = "left_until_done" -> "leftUntilDone"
      [] field = "download_dir" -> "downloadDir"
      [] field = "peers_connected" -> "peersConnected"
      [] field = "peers_sending_to_us" -> "peersSendingToUs"
      [] field = "peers_getting_from_us" -> "peersGettingFromUs"
      [] field = "error_string" -> "errorString"
      [] OTHER -> field

\* mapper: fn(&str) -> String, passed by name
mapper_call(mapper, field) ==
    IF mapper = "legacy_session_field_name"
    THEN legacy_session_field_name(field)
    ELSE legacy_torrent_field_name(field)

map_fields_argument(value, mapper) ==
    IF "fields" \in DOMAIN value
    THEN [value EXCEPT !["fields"] = [i \in DOMAIN @ |-> mapper_call(mapper, @[i])]]
    ELSE value

map_object_keys(value, mapper) ==
    [k2 \in {mapper_call(mapper, k) : k \in DOMAIN value} |->
        value[CHOOSE k \in DOMAIN value : mapper_call(mapper, k) = k2]]

rename_key(value, from, to) ==
    IF from \in DOMAIN value
    THEN [k \in (DOMAIN value \ {from}) \cup {to} |->
            IF k = to THEN value[from] ELSE value[k]]
    ELSE value

\* a variant that renames torrent_get's fields by the session map
translate_arguments_for_protocol_SessionMapForTorrents(protocol, method, arguments) ==
    IF protocol /= "Legacy" \/ ~IsSome(arguments)
    THEN arguments
    ELSE LET value == Unwrap(arguments)
         IN  Some(CASE method \in {"session_get", "torrent_get"} ->
                          map_fields_argument(value, "legacy_session_field_name")
                    [] method = "session_set" ->
                          map_object_keys(value, "legacy_session_field_name")
                    [] method = "torrent_remove" ->
                          rename_key(value, "delete_local_data", "delete-local-data")
                    [] OTHER -> value)

\* arguments is an Option: None, or Some(object)
translate_arguments_for_protocol(protocol, method, arguments) ==
    IF protocol /= "Legacy" \/ ~IsSome(arguments)
    THEN arguments
    ELSE LET value == Unwrap(arguments)
         IN  Some(CASE method = "session_get" ->
                          map_fields_argument(value, "legacy_session_field_name")
                    [] method = "torrent_get" ->
                          map_fields_argument(value, "legacy_torrent_field_name")
                    [] method = "session_set" ->
                          map_object_keys(value, "legacy_session_field_name")
                    [] method = "torrent_remove" ->
                          rename_key(value, "delete_local_data", "delete-local-data")
                    [] OTHER -> value)

\* JsonRpcRequest / LegacyRpcRequest as serialised; tag is the counter value
\* taken by fetch_add.  params/arguments are omitted when None.
BuildPayload(protocol, method, arguments, tag) ==
    LET rpc_method == method_for_protocol(method, protocol)
        params == translate_arguments_for_protocol(protocol, method, arguments)
    IN  IF protocol = "Json"
        THEN [jsonrpc |-> "2.0", method |-> rpc_method, params |-> params, id |-> tag]
        ELSE [method |-> rpc_method, arguments |-> params, tag |-> tag]

\* ------------------------------------------------ rpc.rs: response handling

HttpError == [kind |-> "Http"]
AuthenticationError == [kind |-> "Authentication"]
SessionError == [kind |-> "Session"]
HttpStatusError(code) == [kind |-> "HttpStatus", status |-> code]
ParseError == [kind |-> "Parse"]
RpcError(code, message) == [kind |-> "Rpc", code |-> code, message |-> message]

\* a variant that compares the message as received, without lowering its case
should_retry_in_legacy_CaseSensitive(err) ==
    IF err.kind = "Rpc"
    THEN \/ err.code = MethodNotFoundCode
         \/ contains(err.message, MethodNotFoundText)
         \/ contains(err.message, MethodNameNotRecognizedText)
    ELSE FALSE

should_retry_in_legacy(err) ==
    IF err.kind = "Rpc"
    THEN LET normalized == to_ascii_lowercase(err.message)
         IN  \/ err.code = MethodNotFoundCode
             \/ contains(normalized, MethodNotFoundText)
             \/ contains(normalized, MethodNameNotRecognizedText)
    ELSE FALSE

parse_json_rpc_error(error) ==
    RpcError(unwrap_or(Get(error, "code"), LegacyErrorCode),
             unwrap_or(Get(error, "message"), <<"r", "p", "c", " ", "e", "r", "r", "o", "r">>))

handle_json_rpc_body(body) ==
    IF "error" \in DOMAIN body
    THEN Err(parse_json_rpc_error(body["error"]))
    ELSE Ok(unwrap_or(Get(body, "result"), Null))

handle_legacy_body(body) ==
    IF "result" \notin DOMAIN body
    THEN Err(ParseError)
    ELSE IF body["result"] /= SuccessText
         THEN Err(RpcError(LegacyErrorCode, body["result"]))
         ELSE Ok(unwrap_or(Get(body, "arguments"), Null))

handle_response_body(body) ==
    IF "jsonrpc" \in DOMAIN body
    THEN handle_json_rpc_body(body)
    ELSE handle_legacy_body(body)

\* HeaderValue::to_str: only a value of visible ASCII converts to a string
HeaderToStr(value) == IF value.ascii THEN Ok(value.text) ELSE Err(SessionError)

\* a variant that takes every status below 400 for a success
is_success_Below400(status) == status \in 200..399

\* StatusCode::is_success
is_success(status) == status \in 200..299

\* a variant that fails the call on every 409
ResponseOutcome_NeverResends(r) ==
    CASE r.kind = "transport" -> [continue |-> FALSE, result |-> Err(HttpError)]
      [] r.kind = "http" /\ r.status = 409 ->
            IF IsSome(r.session_header)
            THEN LET value == HeaderToStr(Unwrap(r.session_header))
                 IN  IF value.ok
                     THEN [continue |-> FALSE, result |-> Err(SessionError)]
                     ELSE [continue |-> FALSE, result |-> Err(SessionError)]
            ELSE [continue |-> FALSE, result |-> Err(SessionError)]
      [] r.kind = "http" /\ r.status = 401 ->
            [continue |-> FALSE, result |-> Err(AuthenticationError)]
      [] r.kind = "http" /\ ~is_success(r.status) /\ r.status \notin {401, 409} ->
            [continue |-> FALSE, result |-> Err(HttpStatusError(r.status))]
      [] OTHER ->
            IF r.json
            THEN [continue |-> FALSE, result |-> handle_response_body(r.body)]
            ELSE [continue |-> FALSE, result |-> Err(HttpError)]

\* One pass of perform_request's loop over the response (or the failed send):
\* either the loop continues with a new stored token, or the call returns.
ResponseOutcome(r) ==
    CASE r.kind = "transport" -> [continue |-> FALSE, result |-> Err(HttpError)]
      [] r.kind = "http" /\ r.status = 409 ->
            IF IsSome(r.session_header)
            THEN LET value == HeaderToStr(Unwrap(r.session_header))
                 IN  IF value.ok
                     THEN [continue |-> TRUE, token |-> value.value]
                     ELSE [continue |-> FALSE, result |-> Err(SessionError)]
            ELSE [continue |-> FALSE, result |-> Err(SessionError)]
      [] r.kind = "http" /\ r.status = 401 ->
            [continue |-> FALSE, result |-> Err(AuthenticationError)]
      [] r.kind = "http" /\ ~is_success(r.status) /\ r.status \notin {401, 409} ->
            [continue |-> FALSE, result |-> Err(HttpStatusError(r.status))]
      [] OTHER ->
            IF r.json
            THEN [continue |-> FALSE, result |-> handle_response_body(r.body)]
            ELSE [continue |-> FALSE, result |-> Err(HttpError)]

\* ------------------------------------------------------------- model data

NameAlpha == <<"a", "l", "p", "h", "a">>
NameBeta == <<"B", "e", "t", "a">>
NameFoo == <<"f", "o", "o">>
MagnetText == <<"m", "a", "g", "n", "e", "t", ":", "x">>

TorrentWire(id, name) == [id |-> id, name |-> name]

\* daemon-side results per method; a body without result/arguments gives Null
TorrentGetValues ==
    { EmptyObject,
      [torrents |-> <<TorrentWire(1, NameAlpha), TorrentWire(2, NameBeta)>>],
      [torrents |-> <<TorrentWire(2, NameBeta), TorrentWire(7, NameFoo)>>] }

SessionStatsValues == { [torrentCount |-> 2, activeTorrentCount |-> 1, download_speed |-> 10] }

SessionVersionValues == { [version |-> "4.0.6"] }

PreferencesValues ==
    { [download_dir |-> <<"/", "d">>, speed_limit_up |-> 100, encryption |-> "allowed"],
      [x \in {"download-dir", "speed-limit-up-enabled", "peer-limit-global", "encryption"} |->
          CASE x = "download-dir" -> <<"/", "e">>
            [] x = "speed-limit-up-enabled" -> TRUE
            [] x = "peer-limit-global" -> -5
            [] x = "encryption" -> "tolerated"] }

AddTorrentValues ==
    { [torrent_added |-> [id |-> 7, name |-> NameFoo]],
      [x \in {"torrent-duplicate"} |-> [id |-> 7, name |-> NameFoo]],
      [torrent_added |-> [name |-> NameFoo]],
      EmptyObject }

ResultValues(method) ==
    CASE method = "torrent_get" -> TorrentGetValues
      [] method = "session_stats" -> SessionStatsValues
      [] method = "session_get_version" -> SessionVersionValues
      [] method = "session_get_prefs" -> PreferencesValues
      [] method = "torrent_add" -> AddTorrentValues
      [] OTHER -> { EmptyObject }

Tokens == {"abc123", "def456"}

\* JSON-RPC error objects and legacy result strings a daemon answers with
InvalidParamsError ==
    [code |-> -32602,
     message |-> <<"I", "n", "v", "a", "l", "i", "d", " ", "p", "a", "r", "a", "m", "s">>]

TorrentNotFoundText ==
    <<"t", "o", "r", "r", "e", "n", "t", " ", "n", "o", "t", " ", "f", "o", "u", "n", "d">>

JsonErrors ==
    { [code |-> MethodNotFoundCode,
       message |-> <<"n", "o", " ", "s", "u", "c", "h", " ", "c", "a", "l", "l">>],
      [code |-> -32000,
       message |-> <<"M", "e", "t", "h", "o", "d", " ", "N", "o", "t", " ", "F", "o", "u", "n",
                     "d", ":", " ", "t", "o", "r", "r", "e", "n", "t", "_", "g", "e", "t">>],
      InvalidParamsError }

LegacyErrors ==
    { <<"M", "e", "t", "h", "o", "d", " ", "n", "a", "m", "e", " ", "n", "o", "t", " ",
        "r", "e", "c", "o", "g", "n", "i", "z", "e", "d">>,
      TorrentNotFoundText }

HttpResponse(status, header) ==
    [kind |-> "http", status |-> status, session_header |-> header, json |-> FALSE,
     body |-> EmptyObject]

HttpBody(body) ==
    [kind |-> "http", status |-> 200, session_header |-> None, json |-> TRUE, body |-> body]

\* what the daemon (or the network) may answer to a request for `stage`
Responses(stage) ==
    { [kind |-> "transport"] }
    \cup { HttpResponse(409, Some([ascii |-> TRUE, text |-> t])) : t \in Tokens }
    \cup { HttpResponse(409, Some([ascii |-> FALSE, text |-> "opaque"])),
           HttpResponse(409, None),
           HttpResponse(401, None),
           HttpResponse(302, None),
           HttpResponse(500, None),
           HttpResponse(200, None) }
    \cup { HttpBody([jsonrpc |-> "2.0", result |-> v]) : v \in ResultValues(stage) }
    \cup { HttpBody([jsonrpc |-> "2.0"]) }
    \cup { HttpBody([jsonrpc |-> "2.0", error |-> e]) : e \in JsonErrors }
    \cup { HttpBody([result |-> SuccessText, arguments |-> v]) : v \in ResultValues(stage) }
    \cup { HttpBody([result |-> m]) : m \in LegacyErrors }
    \cup { HttpBody([arguments |-> EmptyObject]) }

\* the answers of a daemon that speaks the dialect of the request, and the
\* faults between the worker and it
PlainResponses(stage, protocol) ==
    { [kind |-> "transport"], HttpResponse(401, None) }
    \cup (IF protocol = "Json"
          THEN { HttpBody([jsonrpc |-> "2.0", result |-> v]) : v \in ResultValues(stage) }
               \cup { HttpBody([jsonrpc |-> "2.0", error |-> InvalidParamsError]) }
          ELSE { HttpBody([result |-> SuccessText, arguments |-> v]) :
                   v \in ResultValues(stage) }
               \cup { HttpBody([result |-> TorrentNotFoundText]) })

\* ------------------------------------------------------ rpc.rs: client API

SnapshotFields ==
    <<"id", "name", "status", "percent_done", "rate_download", "rate_upload", "eta",
      "upload_ratio", "size_when_done", "left_until_done", "download_dir",
      "peers_connected", "peers_sending_to_us", "peers_getting_from_us", "error_string",
      "peers">>

\* The call_raw invocation a handler makes at `stage`: canonical method name
\* and Option<arguments>.
StageCall(cmd, stage) ==
    CASE stage = "torrent_get" ->
            [method |-> "torrent_get", arguments |-> Some([fields |-> SnapshotFields])]
      [] stage = "session_stats" -> [method |-> "session_stats", arguments |-> None]
      [] stage = "session_get_version" ->
            [method |-> "session_get", arguments |-> Some([fields |-> <<"version">>])]
      [] stage = "session_get_prefs" ->
            [method |-> "session_get", arguments |-> Some([fields |-> PREFERENCE_FIELDS])]
      [] stage = "session_set" ->
            [method |-> "session_set", arguments |-> Some(to_rpc_map(cmd.prefs))]
      [] stage = "torrent_add" ->
            [method |-> "torrent_add", arguments |-> Some([filename |-> trim(cmd.magnet)])]
      [] stage = "torrent_remove" ->
            [method |-> "torrent_remove",
             arguments |-> Some([ids |-> <<cmd.id>>, delete_local_data |-> cmd.delete_data])]
      [] stage = "torrent_start" ->
            [method |-> "torrent_start", arguments |-> Some([ids |-> <<cmd.id>>])]
      [] stage = "torrent_stop" ->
            [method |-> "torrent_stop", arguments |-> Some([ids |-> <<cmd.id>>])]

\* TorrentSummary::from(TorrentWire); only the fields the reducer's state
\* machine reads are kept
torrent_summary_from(wire) == [torrent_id |-> wire.id, name |-> wire.name]

\* AddTorrentOutcome::from(AddTorrentResponse)
add_torrent_outcome_from(v) ==
    LET added == GetAlias(v, <<"torrent_added", "torrent-added", "torrentAdded">>)
        dup == GetAlias(v, <<"torrent_duplicate", "torrent-duplicate", "torrentDuplicate">>)
    IN  IF IsSome(added)
        THEN [torrent_id |-> Get(Unwrap(added), "id"), name |-> Get(Unwrap(added), "name"),
              added |-> TRUE, duplicate |-> FALSE]
        ELSE IF IsSome(dup)
             THEN [torrent_id |-> Get(Unwrap(dup), "id"), name |-> Get(Unwrap(dup), "name"),
                   added |-> FALSE, duplicate |-> TRUE]
             ELSE [torrent_id |-> None, name |-> None, added |-> FALSE, duplicate |-> FALSE]

\* serde_json::from_value at the typed wrappers (call, session_get,
\* session_stats, torrent_get); call_raw's other callers drop the value
Decode(stage, value) ==
    CASE stage \in {"torrent_remove", "torrent_start", "torrent_stop", "session_set"} ->
            Ok(<<>>)
      [] value = Null -> Err(ParseError)
      [] stage = "torrent_get" ->
            Ok([i \in DOMAIN unwrap_or(Get(value, "torrents"), <<>>) |->
                   torrent_summary_from(value["torrents"][i])])
      [] stage = "session_stats" ->
            Ok([active_torrent_count |->
                    unwrap_or(GetAlias(value, <<"active_torrent_count", "activeTorrentCount">>), 0),
                paused_torrent_count |->
                    unwrap_or(GetAlias(value, <<"paused_torrent_count", "pausedTorrentCount">>), 0),
                torrent_count |->
                    unwrap_or(GetAlias(value, <<"torrent_count", "torrentCount">>), 0),
                download_speed |->
                    unwrap_or(GetAlias(value, <<"download_speed", "downloadSpeed">>), 0),
                upload_speed |->
                    unwrap_or(GetAlias(value, <<"upload_speed", "uploadSpeed">>), 0)])
      [] stage = "session_get_version" -> Ok([version |-> Get(value, "version")])
      [] stage = "session_get_prefs" -> Ok(preferences_from_response(value))
      [] stage = "torrent_add" -> Ok(add_torrent_outcome_from(value))

\* fetch_snapshot's Ok(Snapshot {..}) from its three decoded results
MakeSnapshot(torrents, stats, session) ==
    [version |-> unwrap_or(session.version, "unknown"),
     download_speed |-> stats.download_speed,
     upload_speed |-> stats.upload_speed,
     active_torrents |-> stats.active_torrent_count,
     paused_torrents |-> stats.paused_torrent_count,
     total_torrents |-> stats.torrent_count,
     torrents |-> torrents]

\* --------------------------------------------------- tui.rs: worker events

StatusUpdate(level, tag, detail) == [text |-> <<tag, detail>>, level |-> level]

StatusEvent(update) == [type |-> "Status", update |-> update]
FocusEvent(target) == [type |-> "FocusTorrent", target |-> target]
SnapshotEvent(result) == [type |-> "Snapshot", result |-> result]
PreferencesEvent(result) == [type |-> "Preferences", result |-> result]

\* a variant that sends the focus before the status
handle_add_ok_FocusFirst(outcome) ==
    (IF IsSome(outcome.torrent_id)
     THEN <<FocusEvent(Some(Unwrap(outcome.torrent_id)))>>
     ELSE <<>>)
    \o <<StatusEvent(StatusUpdate("Success", "Magnet queued",
                                  unwrap_or(outcome.name, <<"t", "o", "r", "r", "e", "n", "t">>)))>>

\* the Ok arm of handle_add up to send_snapshot
handle_add_ok(outcome) ==
    LET label == unwrap_or(outcome.name, <<"t", "o", "r", "r", "e", "n", "t">>)
        status == IF outcome.duplicate
                  THEN StatusUpdate("Warning", "Magnet already present", label)
                  ELSE IF outcome.added
                       THEN StatusUpdate("Success", "Magnet queued", label)
                       ELSE StatusUpdate("Success", "Magnet processed", label)
    IN  <<StatusEvent(status)>>
        \o (IF IsSome(outcome.torrent_id)
            THEN <<FocusEvent(Some(Unwrap(outcome.torrent_id)))>>
            ELSE <<>>)

OpFailedText(cmd) ==
    CASE cmd.type = "AddMagnet" -> "Add failed"
      [] cmd.type = "RemoveTorrent" -> "Remove failed"
      [] cmd.type = "ResumeTorrent" -> "Resume failed"
      [] cmd.type = "PauseTorrent" -> "Pause failed"

OpStages == {"torrent_add", "torrent_remove", "torrent_start", "torrent_stop"}
SnapshotStages == {"torrent_get", "session_stats", "session_get_version"}

\* handle_command's dispatch: the first RPC of the command's handler
FirstStage(cmd) ==
    CASE cmd.type \in {"Refresh", "Timeout"} -> "torrent_get"
      [] cmd.type = "AddMagnet" -> "torrent_add"
      [] cmd.type = "RemoveTorrent" -> "torrent_remove"
      [] cmd.type = "ResumeTorrent" -> "torrent_start"
      [] cmd.type = "PauseTorrent" -> "torrent_stop"
      [] cmd.type = "FetchPreferences" -> "session_get_prefs"
      [] cmd.type = "UpdatePreferences" -> "session_set"

\* What a handler does when the typed call at `stage` returned Ok(decoded):
\* the events it sends and the stage of its next RPC ("done": back to the
\* receive loop).  acc holds fetch_snapshot's earlier results.
HandlerOnOk(cmd, stage, decoded, acc) ==
    CASE stage = "torrent_add" ->
            [emits |-> handle_add_ok(decoded), next |-> "torrent_get", acc |-> <<>>]
      [] stage = "torrent_remove" ->
            [emits |-> <<StatusEvent(StatusUpdate("Success", "Removed", cmd.name))>>,
             next |-> "torrent_get", acc |-> <<>>]
      [] stage = "torrent_start" ->
            [emits |-> <<StatusEvent(StatusUpdate("Success", "Resumed", cmd.name))>>,
             next |-> "torrent_get", acc |-> <<>>]
      [] stage = "torrent_stop" ->
            [emits |-> <<StatusEvent(StatusUpdate("Success", "Paused", cmd.name))>>,
             next |-> "torrent_get", acc |-> <<>>]
      [] stage = "torrent_get" ->
            [emits |-> <<>>, next |-> "session_stats", acc |-> <<decoded>>]
      [] stage = "session_stats" ->
            [emits |-> <<>>, next |-> "session_get_version", acc |-> Append(acc, decoded)]
      [] stage = "session_get_version" ->
            [emits |-> <<SnapshotEvent(Ok(MakeSnapshot(acc[1], acc[2], decoded)))>>,
             next |-> "done", acc |-> <<>>]
      [] stage = "session_set" ->
            [emits |-> <<>>, next |-> "session_get_prefs", acc |-> <<>>]
      [] stage = "session_get_prefs" ->
            [emits |-> IF cmd.type = "UpdatePreferences"
                       THEN <<PreferencesEvent(Ok(decoded)),
                              StatusEvent(StatusUpdate("Success", "Preferences updated", <<>>))>>
                       ELSE <<PreferencesEvent(Ok(decoded))>>,
             next |-> "done", acc |-> <<>>]

\* a variant in which a failed preferences RPC also sends a status
HandlerOnErr_WithStatus(cmd, stage, err) ==
    CASE stage \in OpStages ->
            [emits |-> <<StatusEvent(StatusUpdate("Error", OpFailedText(cmd), err))>>,
             next |-> "done", acc |-> <<>>]
      [] stage \in SnapshotStages ->
            [emits |-> <<SnapshotEvent(Err(err))>>, next |-> "done", acc |-> <<>>]
      [] stage \in {"session_set", "session_get_prefs"} ->
            [emits |-> <<PreferencesEvent(Err(err)),
                         StatusEvent(StatusUpdate("Error", "Preferences error", err))>>,
             next |-> "done", acc |-> <<>>]

\* ... and when it returned Err(err): every handler stops there
HandlerOnErr(cmd, stage, err) ==
    CASE stage \in OpStages ->
            [emits |-> <<StatusEvent(StatusUpdate("Error", OpFailedText(cmd), err))>>,
             next |-> "done", acc |-> <<>>]
      [] stage \in SnapshotStages ->
            [emits |-> <<SnapshotEvent(Err(err))>>, next |-> "done", acc |-> <<>>]
      [] stage \in {"session_set", "session_get_prefs"} ->
            [emits |-> <<PreferencesEvent(Err(err))>>, next |-> "done", acc |-> <<>>]

\* ------------------------------------------------------- tui.rs: reducer

\* Instant::now(), in whole seconds since the program started
VARIABLE now

NormalMode == [kind |-> "Normal"]
\* PromptState::new("Add magnet") with the buffer given
PromptMode(buffer) == [kind |-> "Prompt", title |-> "Add magnet", buffer |-> buffer]
LoadingView == [kind |-> "Loading"]
ErrorView(message) == [kind |-> "Error", message |-> message]
ReadyView(form) == [kind |-> "Ready", form |-> form]
PreferencesMode(view) == [kind |-> "Preferences", view |-> view]

\* PreferencesForm::new
NewForm(prefs) ==
    [prefs |-> prefs, selected |-> 0, editing |-> None, dirty |-> FALSE, saving |-> FALSE,
     message |-> None]

\* App::new followed by run's set_status("Connecting to transmission...")
InitialApp ==
    [snapshot |-> None,
     preferences_cache |-> None,
     list_selected |-> None,
     filtered_indices |-> <<>>,
     filter_text |-> <<>>,
     filter_lower |-> <<>>,
     pending_focus |-> None,
     selected_id |-> None,
     status |-> Some([text |-> <<"Connecting to transmission", <<>>>>, level |-> "Info",
                      expires_at |-> Some(InfoSeconds)]),
     toast |-> None,
     mode |-> NormalMode,
     should_quit |-> FALSE,
     pending_manual_refresh |-> FALSE,
     delete_armed |-> FALSE,
     delete_armed_until |-> None]

\* StatusMessage::from_update
from_update(update) ==
    [text |-> update.text,
     level |-> update.level,
     expires_at |-> Some(now + (CASE update.level = "Info" -> InfoSeconds
                                  [] update.level = "Success" -> SuccessSeconds
                                  [] update.level = "Warning" -> WarningSeconds
                                  [] update.level = "Error" -> ErrorSeconds))]

set_status(a, update) ==
    [a EXCEPT !.toast = IF update.level \in {"Warning", "Error"}
                        THEN Some(from_update(update)) ELSE @,
              !.status = Some(from_update(update))]

\* str::to_lowercase, on the ASCII letters the model's texts are made of
to_lowercase(s) == to_ascii_lowercase(s)

\* a variant that compares the name as it is written
matches_filter_CaseSensitive(a, torrent) ==
    IF a.filter_lower = <<>>
    THEN TRUE
    ELSE contains(torrent.name, a.filter_lower)

matches_filter(a, torrent) ==
    IF a.filter_lower = <<>>
    THEN TRUE
    ELSE contains(to_lowercase(torrent.name), a.filter_lower)

\* filtered_indices and list_selected hold the code's 0-based indices
TorrentAt(a, idx) == Unwrap(a.snapshot).torrents[idx + 1]

current_torrent(a) ==
    IF IsSome(a.snapshot) /\ IsSome(a.list_selected)
       /\ Unwrap(a.list_selected) < Len(a.filtered_indices)
       /\ a.filtered_indices[Unwrap(a.list_selected) + 1] < Len(Unwrap(a.snapshot).torrents)
    THEN Some(TorrentAt(a, a.filtered_indices[Unwrap(a.list_selected) + 1]))
    ELSE None

update_selected_id(a) ==
    [a EXCEPT !.selected_id =
        IF IsSome(current_torrent(a)) THEN Some(Unwrap(current_torrent(a)).torrent_id)
        ELSE None]

RECURSIVE FilterIndices(_, _)
FilterIndices(a, idx) ==
    IF ~IsSome(a.snapshot) \/ idx >= Len(Unwrap(a.snapshot).torrents)
    THEN <<>>
    ELSE (IF matches_filter(a, TorrentAt(a, idx)) THEN <<idx>> ELSE <<>>)
         \o FilterIndices(a, idx + 1)

Min(x, y) == IF x < y THEN x ELSE y

\* a variant that leaves the selection alone when nothing matches
rebuild_indices_KeepsSelectionWhenEmpty(a) ==
    LET fi == FilterIndices(a, 0)
        target == IF IsSome(a.pending_focus) THEN a.pending_focus ELSE a.selected_id
        taken == [a EXCEPT !.filtered_indices = fi, !.pending_focus = None]
        hits == {pos \in 0..(Len(fi) - 1) :
                    IsSome(target) /\ TorrentAt(a, fi[pos + 1]).torrent_id = Unwrap(target)}
    IN  IF fi = <<>>
        THEN [a EXCEPT !.filtered_indices = fi]
        ELSE IF hits /= {}
             THEN [taken EXCEPT
                      !.list_selected = Some(CHOOSE pos \in hits : \A q \in hits : pos <= q),
                      !.selected_id = target]
             ELSE update_selected_id(
                      [taken EXCEPT !.list_selected =
                          Some(Min(unwrap_or(a.list_selected, 0), Len(fi) - 1))])

rebuild_indices(a) ==
    LET fi == FilterIndices(a, 0)
        target == IF IsSome(a.pending_focus) THEN a.pending_focus ELSE a.selected_id
        taken == [a EXCEPT !.filtered_indices = fi, !.pending_focus = None]
        hits == {pos \in 0..(Len(fi) - 1) :
                    IsSome(target) /\ TorrentAt(a, fi[pos + 1]).torrent_id = Unwrap(target)}
    IN  IF fi = <<>>
        THEN [a EXCEPT !.filtered_indices = fi, !.list_selected = None, !.selected_id = None]
        ELSE IF hits /= {}
             THEN [taken EXCEPT
                      !.list_selected = Some(CHOOSE pos \in hits : \A q \in hits : pos <= q),
                      !.selected_id = target]
             ELSE update_selected_id(
                      [taken EXCEPT !.list_selected =
                          Some(Min(unwrap_or(a.list_selected, 0), Len(fi) - 1))])

\* a variant that drops the list when a fetch failed
apply_snapshot_ClearOnError(a, result) ==
    IF result.ok
    THEN [rebuild_indices([a EXCEPT !.pending_focus = None, !.snapshot = Some(result.value)])
            EXCEPT !.pending_manual_refresh = FALSE]
    ELSE [set_status(rebuild_indices([a EXCEPT !.snapshot = None]),
                     StatusUpdate("Error", "RPC error", result.err))
            EXCEPT !.pending_manual_refresh = FALSE]

apply_snapshot(a, result) ==
    IF result.ok
    THEN LET focus == IF IsSome(a.pending_focus) THEN a.pending_focus ELSE a.selected_id
             first == IF result.value.torrents /= <<>>
                      THEN Some(result.value.torrents[1].torrent_id)
                      ELSE None
             loaded == [a EXCEPT !.pending_focus = None,
                                 !.snapshot = Some(result.value),
                                 !.selected_id = IF IsSome(focus) THEN focus ELSE first]
             rebuilt == rebuild_indices(loaded)
             told == IF a.pending_manual_refresh \/ ~IsSome(a.status)
                     THEN set_status(rebuilt,
                              StatusUpdate("Success", "Refreshed torrents",
                                           Len(result.value.torrents)))
                     ELSE rebuilt
         IN  [told EXCEPT !.pending_manual_refresh = FALSE]
    ELSE [set_status(a, StatusUpdate("Error", "RPC error", result.err))
            EXCEPT !.pending_manual_refresh = FALSE]

\* a variant that leaves the dirty flag as it was
replace_prefs_KeepsDirty(form, prefs) ==
    [form EXCEPT !.prefs = prefs, !.saving = FALSE, !.editing = None,
                 !.message = Some([text |-> IF form.saving THEN "Preferences saved"
                                            ELSE "Preferences reloaded"])]

\* PreferencesForm::replace_prefs
replace_prefs(form, prefs) ==
    [form EXCEPT !.prefs = prefs, !.dirty = FALSE, !.saving = FALSE, !.editing = None,
                 !.message = Some([text |-> IF form.saving THEN "Preferences saved"
                                            ELSE "Preferences reloaded"])]

\* PreferencesState::apply_loaded / apply_error / mark_refreshing, on the view
apply_loaded(view, prefs) ==
    IF view.kind = "Ready"
    THEN ReadyView(replace_prefs(view.form, prefs))
    ELSE ReadyView(NewForm(prefs))

\* a variant that leaves a failed save marked as saving
apply_error_KeepsSaving(view, message) ==
    IF view.kind = "Ready"
    THEN ReadyView([view.form EXCEPT !.message = Some(message)])
    ELSE ErrorView(message)

\* a variant that shows the Error view whatever the view was
apply_error_DropsForm(view, message) == ErrorView(message)

apply_error(view, message) ==
    IF view.kind = "Ready"
    THEN ReadyView([view.form EXCEPT !.saving = FALSE, !.message = Some(message)])
    ELSE ErrorView(message)

mark_refreshing(view) ==
    IF view.kind = "Ready"
    THEN ReadyView([view.form EXCEPT !.message = Some([text |-> "Refreshing from daemon"])])
    ELSE view

\* a variant that shows a failure in the preferences view only
apply_preferences_event_Silent(a, result) ==
    IF result.ok
    THEN [a EXCEPT !.preferences_cache = Some(result.value),
                   !.mode = IF @.kind = "Preferences"
                            THEN PreferencesMode(apply_loaded(@.view, result.value))
                            ELSE @]
    ELSE [a EXCEPT !.mode = IF @.kind = "Preferences"
                            THEN PreferencesMode(apply_error(@.view, result.err))
                            ELSE @]

apply_preferences_event(a, result) ==
    IF result.ok
    THEN [a EXCEPT !.preferences_cache = Some(result.value),
                   !.mode = IF @.kind = "Preferences"
                            THEN PreferencesMode(apply_loaded(@.view, result.value))
                            ELSE @]
    ELSE set_status(
             [a EXCEPT !.mode = IF @.kind = "Preferences"
                                 THEN PreferencesMode(apply_error(@.view, result.err))
                                 ELSE @],
             StatusUpdate("Error", "Preferences error", result.err))

\* open_preferences, before its send of FetchPreferences
open_preferences(a) ==
    [a EXCEPT !.mode =
        PreferencesMode(mark_refreshing(
            IF IsSome(a.preferences_cache)
            THEN ReadyView(NewForm(Unwrap(a.preferences_cache)))
            ELSE LoadingView))]

clear_filter(a) ==
    IF a.filter_text = <<>>
    THEN a
    ELSE rebuild_indices([a EXCEPT !.filter_text = <<>>, !.filter_lower = <<>>])

apply_filter_text(a, value) ==
    rebuild_indices([a EXCEPT !.filter_text = value, !.filter_lower = to_lowercase(value)])

\* a variant that does not clamp the new index to the view
move_selection_Unclamped(a, delta) ==
    IF a.filtered_indices = <<>>
    THEN a
    ELSE LET next == IF unwrap_or(a.list_selected, 0) + delta < 0 THEN 0
                     ELSE unwrap_or(a.list_selected, 0) + delta
         IN  update_selected_id([a EXCEPT !.list_selected = Some(next)])

move_selection(a, delta) ==
    IF a.filtered_indices = <<>>
    THEN a
    ELSE LET max_index == Len(a.filtered_indices) - 1
             current == unwrap_or(a.list_selected, 0)
             next == IF current + delta < 0 THEN 0
                     ELSE IF current + delta > max_index THEN max_index
                     ELSE current + delta
         IN  update_selected_id([a EXCEPT !.list_selected = Some(next)])

goto_top(a) ==
    IF a.filtered_indices = <<>>
    THEN a
    ELSE update_selected_id([a EXCEPT !.list_selected = Some(0)])

\* a variant that moves the index and leaves selected_id as it was
goto_bottom_KeepsId(a) ==
    IF a.filtered_indices = <<>>
    THEN a
    ELSE [a EXCEPT !.list_selected = Some(Len(a.filtered_indices) - 1)]

goto_bottom(a) ==
    IF a.filtered_indices = <<>>
    THEN a
    ELSE update_selected_id([a EXCEPT !.list_selected = Some(Len(a.filtered_indices) - 1)])

disarm_delete(a) == [a EXCEPT !.delete_armed = FALSE, !.delete_armed_until = None]

arm_delete(a) ==
    set_status([a EXCEPT !.delete_armed = TRUE, !.delete_armed_until = Some(now + ArmSeconds)],
               StatusUpdate("Info", "Press d again to delete the selected torrent", <<>>))

expire_status(a) ==
    LET Expired(at) == IsSome(at) /\ now >= Unwrap(at)
        cleared == [a EXCEPT
                       !.status = IF IsSome(@) /\ Expired(Unwrap(@).expires_at)
                                  THEN None ELSE @,
                       !.toast = IF IsSome(@) /\ Expired(Unwrap(@).expires_at)
                                 THEN None ELSE @]
    IN  IF cleared.delete_armed /\ Expired(cleared.delete_armed_until)
        THEN disarm_delete(cleared)
        ELSE cleared

\* a variant whose dialog asks for the data to be deleted too
prompt_delete_current_DeletesData(a) ==
    IF IsSome(current_torrent(a))
    THEN [a EXCEPT !.mode = [kind |-> "Confirm",
                             title |-> "Remove torrent",
                             target_id |-> Unwrap(current_torrent(a)).torrent_id,
                             target_name |-> Unwrap(current_torrent(a)).name,
                             delete_data |-> TRUE]]
    ELSE set_status(a, StatusUpdate("Error", "No torrent selected to delete", <<>>))

\* The key handlers return the new App and the command they sent on rpc_tx,
\* if any.  rpc_tx.send succeeds: the worker keeps its receiver until the
\* reducer has dropped the sender.
prompt_delete_current(a) ==
    IF IsSome(current_torrent(a))
    THEN [a EXCEPT !.mode = [kind |-> "Confirm",
                             title |-> "Remove torrent",
                             target_id |-> Unwrap(current_torrent(a)).torrent_id,
                             target_name |-> Unwrap(current_torrent(a)).name,
                             delete_data |-> FALSE]]
    ELSE set_status(a, StatusUpdate("Error", "No torrent selected to delete", <<>>))

queue_refresh(a) ==
    [app |-> set_status([a EXCEPT !.pending_manual_refresh = TRUE],
                        StatusUpdate("Info", "Refreshing", <<>>)),
     command |-> Some([type |-> "Refresh"])]

resume_selected_torrent(a) ==
    IF IsSome(current_torrent(a))
    THEN LET torrent == Unwrap(current_torrent(a))
         IN  [app |-> set_status(a, StatusUpdate("Info", "Resuming", torrent.name)),
              command |-> Some([type |-> "ResumeTorrent", id |-> torrent.torrent_id,
                                name |-> torrent.name])]
    ELSE [app |-> set_status(a, StatusUpdate("Warning", "No torrent selected; cannot resume",
                                             <<>>)),
          command |-> None]

pause_selected_torrent(a) ==
    IF IsSome(current_torrent(a))
    THEN LET torrent == Unwrap(current_torrent(a))
         IN  [app |-> set_status(a, StatusUpdate("Info", "Pausing", torrent.name)),
              command |-> Some([type |-> "PauseTorrent", id |-> torrent.torrent_id,
                                name |-> torrent.name])]
    ELSE [app |-> set_status(a, StatusUpdate("Warning", "No torrent selected; cannot pause",
                                             <<>>)),
          command |-> None]

\* A KeyEvent of kind Press: code is the character of KeyCode::Char, or the
\* name of another KeyCode; modifiers is a subset of {"CONTROL", "SHIFT", "ALT"}.
Key(code, modifiers) == [code |-> code, modifiers |-> modifiers]

handle_normal_key(a, key) ==
    LET plain_d == key.code = "d" /\ key.modifiers = {}
        b == IF plain_d THEN a ELSE disarm_delete(a)
        shift == "SHIFT" \in key.modifiers
        control == "CONTROL" \in key.modifiers
        quiet(c) == [app |-> c, command |-> None]
    IN  CASE key.code = "q" -> quiet([b EXCEPT !.should_quit = TRUE])
          [] key.code = "r" -> IF shift THEN queue_refresh(b) ELSE resume_selected_torrent(b)
          [] key.code = "R" -> queue_refresh(b)
          [] key.code = "p" -> pause_selected_torrent(b)
          [] key.code = "a" -> quiet([b EXCEPT !.mode = PromptMode(<<>>)])
          [] key.code = "/" ->
                quiet([b EXCEPT !.mode = [kind |-> "Filter", buffer |-> b.filter_text]])
          [] key.code = "j" -> quiet(move_selection(b, 1))
          [] key.code = "k" -> quiet(move_selection(b, -1))
          [] key.code = "g" -> quiet(IF shift THEN goto_bottom(b) ELSE goto_top(b))
          [] key.code = "G" -> quiet(goto_bottom(b))
          [] key.code = "o" ->
                [app |-> open_preferences(b), command |-> Some([type |-> "FetchPreferences"])]
          [] key.code = "?" -> quiet([b EXCEPT !.mode = [kind |-> "Help"]])
          [] key.code = "d" /\ plain_d ->
                quiet(IF b.delete_armed
                      THEN prompt_delete_current(disarm_delete(b))
                      ELSE arm_delete(b))
          [] key.code = "d" /\ ~plain_d /\ control -> quiet(move_selection(b, 5))
          [] key.code = "u" /\ control -> quiet(move_selection(b, -5))
          [] key.code = "Esc" -> quiet(clear_filter(b))
          [] OTHER -> quiet(b)

handle_paste(a, data) ==
    CASE a.mode.kind = "Filter" -> [a EXCEPT !.mode.buffer = @ \o data]
      [] a.mode.kind = "Prompt" -> [a EXCEPT !.mode.buffer = @ \o data]
      [] OTHER -> [a EXCEPT !.mode = PromptMode(data)]

\* -------------------------------------------------- tui.rs: preferences form

PREFERENCE_FORM_FIELDS ==
    <<"DownloadDir", "StartWhenAdded", "SpeedLimitUpEnabled", "SpeedLimitUp",
      "SpeedLimitDownEnabled", "SpeedLimitDown", "SeedRatioLimited", "SeedRatioLimit",
      "IdleSeedingEnabled", "IdleSeedingLimit", "PeerLimitPerTorrent", "PeerLimitGlobal",
      "Encryption", "PexEnabled", "DhtEnabled", "LpdEnabled", "BlocklistEnabled",
      "BlocklistUrl">>

requires_editor(field) ==
    field \in {"DownloadDir", "SpeedLimitUp", "SpeedLimitDown", "SeedRatioLimit",
               "IdleSeedingLimit", "PeerLimitPerTorrent", "PeerLimitGlobal", "BlocklistUrl"}

\* PreferenceField::toggle: the prefs after it and whether the field is a toggle
toggle(field, prefs) ==
    LET flip(p) == [prefs |-> p, toggled |-> TRUE]
    IN  CASE field = "StartWhenAdded" -> flip([prefs EXCEPT !.start_when_added = ~@])
          [] field = "SpeedLimitUpEnabled" ->
                flip([prefs EXCEPT !.speed_limit_up_enabled = ~@])
          [] field = "SpeedLimitDownEnabled" ->
                flip([prefs EXCEPT !.speed_limit_down_enabled = ~@])
          [] field = "SeedRatioLimited" -> flip([prefs EXCEPT !.seed_ratio_limited = ~@])
          [] field = "IdleSeedingEnabled" ->
                flip([prefs EXCEPT !.idle_seeding_limit_enabled = ~@])
          [] field = "PexEnabled" -> flip([prefs EXCEPT !.pex_enabled = ~@])
          [] field = "DhtEnabled" -> flip([prefs EXCEPT !.dht_enabled = ~@])
          [] field = "LpdEnabled" -> flip([prefs EXCEPT !.lpd_enabled = ~@])
          [] field = "BlocklistEnabled" -> flip([prefs EXCEPT !.blocklist_enabled = ~@])
          [] OTHER -> [prefs |-> prefs, toggled |-> FALSE]

\* u32::to_string: decimal digits, no sign, no leading zero
RECURSIVE to_string(_)
to_string(n) ==
    LET digit == <<"0", "1", "2", "3", "4", "5", "6", "7", "8", "9">>[(n % 10) + 1]
    IN  IF n < 10 THEN <<digit>> ELSE Append(to_string(n \div 10), digit)

\* str::parse::<i64>: an optional sign and at least one decimal digit, nothing
\* else; Some(value) or None.  The value is held as a sign and a magnitude
\* hi * 2^16 + lo, so that the bits above the 32nd are kept; a text of this
\* model has at most twelve digits, too few to overflow the 64 bits.
parse_i64(text) ==
    LET DigitValue == ("0" :> 0) @@ ("1" :> 1) @@ ("2" :> 2) @@ ("3" :> 3) @@ ("4" :> 4)
                      @@ ("5" :> 5) @@ ("6" :> 6) @@ ("7" :> 7) @@ ("8" :> 8) @@ ("9" :> 9)
        signed == text /= <<>> /\ Head(text) \in {"+", "-"}
        digits == IF signed THEN Tail(text) ELSE text
        push(v, d) == [hi |-> 10 * v.hi + ((10 * v.lo + d) \div 65536),
                       lo |-> (10 * v.lo + d) % 65536]
        RECURSIVE value(_)
        value(ds) == IF ds = <<>> THEN [hi |-> 0, lo |-> 0]
                     ELSE push(value(SubSeq(ds, 1, Len(ds) - 1)), DigitValue[ds[Len(ds)]])
        with_sign(v) == [negative |-> signed /\ Head(text) = "-", hi |-> v.hi, lo |-> v.lo]
    IN  IF digits /= <<>> /\ \A i \in DOMAIN digits : digits[i] \in DOMAIN DigitValue
        THEN Some(with_sign(value(digits)))
        ELSE None

\* parse_non_negative and parse_positive; `value as u32` keeps the low 32
\* bits of the value, the low 16 bits of hi and all of lo
parse_non_negative(input, label) ==
    LET checked(value) ==
            IF ~IsSome(value) THEN Err([text |-> "Enter a valid number for", label |-> label])
            ELSE IF Unwrap(value).negative /\ (Unwrap(value).hi > 0 \/ Unwrap(value).lo > 0)
            THEN Err([text |-> "must be zero or positive", label |-> label])
            ELSE Ok((Unwrap(value).hi % 65536) * 65536 + Unwrap(value).lo)
    IN  checked(parse_i64(trim(input)))

parse_positive(input, label) ==
    LET checked(value) ==
            IF ~IsSome(value) THEN Err([text |-> "Enter a valid number for", label |-> label])
            ELSE IF Unwrap(value).negative \/ (Unwrap(value).hi = 0 /\ Unwrap(value).lo = 0)
            THEN Err([text |-> "must be greater than zero", label |-> label])
            ELSE Ok((Unwrap(value).hi % 65536) * 65536 + Unwrap(value).lo)
    IN  checked(parse_i64(trim(input)))

\* PreferenceField::initial_value; the ratio, held in hundredths, is written
\* with two decimals
initial_value(field, prefs) ==
    LET cents(n) == IF n < 10 THEN <<"0">> \o to_string(n) ELSE to_string(n)
    IN  CASE field = "DownloadDir" -> prefs.download_dir
          [] field = "SpeedLimitUp" -> to_string(prefs.speed_limit_up)
          [] field = "SpeedLimitDown" -> to_string(prefs.speed_limit_down)
          [] field = "SeedRatioLimit" ->
                to_string(prefs.seed_ratio_limit \div 100) \o <<".">>
                \o cents(prefs.seed_ratio_limit % 100)
          [] field = "IdleSeedingLimit" -> to_string(prefs.idle_seeding_limit)
          [] field = "PeerLimitPerTorrent" -> to_string(prefs.peer_limit_per_torrent)
          [] field = "PeerLimitGlobal" -> to_string(prefs.peer_limit_global)
          [] field = "BlocklistUrl" -> unwrap_or(prefs.blocklist_url, <<>>)
          [] OTHER -> <<>>

\* str::parse::<f64> on decimal notation, in hundredths: an optional sign,
\* digits, and at most two decimals after a point; Some(value) or None
parse_f64(text) ==
    LET magnitude(v) == v.hi * 65536 + v.lo
        join(whole, decimals) ==
            IF ~IsSome(whole) \/ ~IsSome(decimals) THEN None
            ELSE Some(IF Head(text) = "-"
                      THEN 0 - 100 * magnitude(Unwrap(whole)) - magnitude(Unwrap(decimals))
                      ELSE 100 * magnitude(Unwrap(whole)) + magnitude(Unwrap(decimals)))
        split(dot) ==
            join(parse_i64(SubSeq(text, 1, dot - 1)),
                 IF dot >= Len(text) THEN Some([negative |-> FALSE, hi |-> 0, lo |-> 0])
                 ELSE IF Len(text) - dot > 2 \/ text[dot + 1] \in {"+", "-"} THEN None
                 ELSE parse_i64(SubSeq(text, dot + 1, Len(text)) \o
                                (IF Len(text) - dot = 1 THEN <<"0">> ELSE <<>>)))
    IN  split(IF \E i \in DOMAIN text : text[i] = "."
              THEN CHOOSE i \in DOMAIN text : text[i] = "." ELSE Len(text) + 1)

\* PreferenceField::apply_input: Ok(prefs after it) or Err(message)
apply_input(field, prefs, input) ==
    LET store(parsed, name) ==
            IF parsed.ok THEN Ok([prefs EXCEPT ![name] = parsed.value]) ELSE parsed
        directory(value) ==
            IF value = <<>> THEN Err([text |-> "Download directory cannot be empty"])
            ELSE Ok([prefs EXCEPT !.download_dir = value])
        ratio(value) ==
            IF ~IsSome(value) THEN Err([text |-> "Enter a numeric ratio (e.g. 2 or 2.0)"])
            ELSE IF Unwrap(value) <= 0 THEN Err([text |-> "Ratio must be greater than zero"])
            ELSE Ok([prefs EXCEPT !.seed_ratio_limit = Unwrap(value)])
        url(value) ==
            Ok([prefs EXCEPT !.blocklist_url = IF value = <<>> THEN None ELSE Some(value)])
    IN  CASE field = "DownloadDir" -> directory(trim(input))
          [] field = "SpeedLimitUp" ->
                store(parse_non_negative(input, "upload limit"), "speed_limit_up")
          [] field = "SpeedLimitDown" ->
                store(parse_non_negative(input, "download limit"), "speed_limit_down")
          [] field = "SeedRatioLimit" -> ratio(parse_f64(trim(input)))
          [] field = "IdleSeedingLimit" ->
                store(parse_non_negative(input, "idle minutes"), "idle_seeding_limit")
          [] field = "PeerLimitPerTorrent" ->
                store(parse_positive(input, "peers per torrent"), "peer_limit_per_torrent")
          [] field = "PeerLimitGlobal" ->
                store(parse_positive(input, "max peers"), "peer_limit_global")
          [] field = "BlocklistUrl" -> url(trim(input))
          [] OTHER -> Ok(prefs)

\* a variant that closes the editor on a text it rejects
finish_edit_ClosesOnError(form) ==
    LET done(applied) ==
            IF applied.ok
            THEN [form EXCEPT !.prefs = applied.value, !.editing = None, !.dirty = TRUE,
                              !.message = Some([text |-> "Updated value"])]
            ELSE [form EXCEPT !.editing = None, !.message = Some(applied.err)]
    IN  done(apply_input(form.editing[1].field, form.prefs, form.editing[1].buffer))

\* PreferencesForm::finish_edit, with an editor open
finish_edit(form) ==
    LET done(applied) ==
            IF applied.ok
            THEN [form EXCEPT !.prefs = applied.value, !.editing = None, !.dirty = TRUE,
                              !.message = Some([text |-> "Updated value"])]
            ELSE [form EXCEPT !.message = Some(applied.err)]
    IN  done(apply_input(form.editing[1].field, form.prefs, form.editing[1].buffer))

\* a variant that saves a form without changes
queue_save_SendsClean(form) ==
    IF form.saving
    THEN [form |-> [form EXCEPT !.message = Some([text |-> "Save already in progress"])],
          command |-> None]
    ELSE [form |-> [form EXCEPT !.saving = TRUE,
                                !.message = Some([text |-> "Saving preferences"])],
          command |-> Some([type |-> "UpdatePreferences", prefs |-> form.prefs])]

\* PreferencesForm::queue_save: the form after it and the command returned
queue_save(form) ==
    IF form.saving
    THEN [form |-> [form EXCEPT !.message = Some([text |-> "Save already in progress"])],
          command |-> None]
    ELSE IF ~form.dirty
    THEN [form |-> [form EXCEPT !.message = Some([text |-> "No changes to save"])],
          command |-> None]
    ELSE [form |-> [form EXCEPT !.saving = TRUE, !.message = Some([text |-> "Saving preferences"])],
          command |-> Some([type |-> "UpdatePreferences", prefs |-> form.prefs])]

\* a variant whose r and R ask for a refresh of the torrent list
handle_key_RefreshesList(view, key) ==
    IF key.code \in {"r", "R"}
    THEN [view |-> view, close |-> FALSE, command |-> Some([type |-> "Refresh"])]
    ELSE [view |-> view, close |-> key.code \in {"Esc", "q"}, command |-> None]

\* a variant that refreshes whether or not the form has changes
refresh_ready_DropsChanges(form) ==
    [view |-> LoadingView, close |-> FALSE, command |-> Some([type |-> "FetchPreferences"])]

\* handle_key's arm for r and R on a Ready form with no editor open
refresh_ready(form) ==
    IF form.dirty
    THEN [view |-> ReadyView([form EXCEPT !.message =
                      Some([text |-> "Save or cancel changes before refreshing"])]),
          close |-> FALSE, command |-> None]
    ELSE [view |-> LoadingView, close |-> FALSE,
          command |-> Some([type |-> "FetchPreferences"])]

\* PreferencesState::handle_key on the view: the view after it, whether the
\* modal closes, and the command returned
handle_key(view, key) ==
    LET fetch(v) == [view |-> v, close |-> FALSE, command |-> Some([type |-> "FetchPreferences"])]
        stay(v) == [view |-> v, close |-> FALSE, command |-> None]
        close == [view |-> view, close |-> TRUE, command |-> None]
        form == view.form
        field == PREFERENCE_FORM_FIELDS[form.selected + 1]
        NamedCodes == {"Enter", "Esc", "Backspace", "Up", "Down", "Left", "Right"}
        \* PreferencesForm::move_selection
        moved(delta) ==
            LET len == Len(PREFERENCE_FORM_FIELDS)
                next == form.selected + delta
            IN  [form EXCEPT !.selected = IF next < 0 THEN 0
                                          ELSE IF next >= len THEN len - 1 ELSE next]
        \* PreferencesForm::toggle_selected
        toggled == [form EXCEPT !.prefs = toggle(field, form.prefs).prefs,
                                !.dirty = TRUE, !.message = None]
        \* PreferencesForm::cycle_encryption, on the Encryption field
        cycled(delta) ==
            LET values == EncryptionModes
                index == CHOOSE i \in 0..(Len(values) - 1) :
                             values[i + 1] = form.prefs.encryption_mode
            IN  [form EXCEPT
                    !.prefs.encryption_mode = values[((index + delta) % Len(values)) + 1],
                    !.dirty = TRUE, !.message = None]
        \* PreferencesForm::start_editor, on a field that requires one
        editor == [form EXCEPT
                      !.editing = Some([field |-> field,
                                        buffer |-> initial_value(field, form.prefs)]),
                      !.message = None]
        saved == queue_save(form)
    IN  CASE view.kind = "Loading" ->
                (CASE key.code \in {"r", "R"} -> fetch(view)
                   [] key.code \in {"Esc", "q"} -> close
                   [] OTHER -> stay(view))
          [] view.kind = "Error" ->
                (CASE key.code \in {"r", "R"} -> fetch(LoadingView)
                   [] key.code \in {"Esc", "q"} -> close
                   [] OTHER -> stay(view))
          [] view.kind = "Ready" /\ IsSome(form.editing) ->
                stay(ReadyView(
                    CASE key.code = "Enter" -> finish_edit(form)
                      [] key.code = "Esc" -> [form EXCEPT !.editing = None, !.message = None]
                      [] key.code = "Backspace" ->
                            [form EXCEPT !.editing[1].buffer =
                                IF @ = <<>> THEN @ ELSE SubSeq(@, 1, Len(@) - 1)]
                      [] key.code \notin NamedCodes ->
                            [form EXCEPT !.editing[1].buffer = Append(@, key.code)]
                      [] OTHER -> form))
          [] view.kind = "Ready" /\ ~IsSome(form.editing) ->
                (CASE key.code \in {"j", "Down"} -> stay(ReadyView(moved(1)))
                   [] key.code \in {"k", "Up"} -> stay(ReadyView(moved(-1)))
                   [] key.code = " " ->
                         stay(ReadyView(IF toggle(field, form.prefs).toggled
                                        THEN toggled ELSE form))
                   [] key.code = "Left" ->
                         stay(ReadyView(IF field = "Encryption" THEN cycled(-1) ELSE form))
                   [] key.code = "Right" ->
                         stay(ReadyView(IF field = "Encryption" THEN cycled(1) ELSE form))
                   [] key.code = "Enter" ->
                         stay(ReadyView(
                             IF requires_editor(field) THEN editor
                             ELSE IF toggle(field, form.prefs).toggled THEN toggled
                             ELSE IF field = "Encryption" THEN cycled(1)
                             ELSE form))
                   [] key.code = "s" ->
                         [view |-> ReadyView(saved.form), close |-> FALSE,
                          command |-> saved.command]
                   [] key.code \in {"r", "R"} -> refresh_ready(form)
                   [] key.code \in {"Esc", "q"} -> close
                   [] OTHER -> stay(view))

\* handle_input on a crossterm Event: a key press [kind |-> "Key"], a paste
\* [kind |-> "Paste"], or anything else (key release, resize, mouse, focus)
handle_input(a, event) ==
    LET key == event.key
        quiet(c) == [app |-> c, command |-> None]
        normal == [a EXCEPT !.mode = NormalMode]
        \* the KeyCodes that are not KeyCode::Char
        NamedCodes == {"Enter", "Esc", "Backspace", "Up", "Down", "Left", "Right"}
        \* String::pop
        pop(buffer) == IF buffer = <<>> THEN buffer ELSE SubSeq(buffer, 1, Len(buffer) - 1)
    IN  CASE event.kind = "Paste" -> quiet(handle_paste(a, event.data))
          [] event.kind = "Key" /\ "CONTROL" \in key.modifiers /\ key.code = "c" ->
                quiet([a EXCEPT !.should_quit = TRUE])
          [] event.kind = "Key" /\ ~("CONTROL" \in key.modifiers /\ key.code = "c") ->
                (CASE a.mode.kind = "Normal" -> handle_normal_key(a, key)
                   [] a.mode.kind = "Filter" ->
                         quiet(CASE key.code = "Enter" ->
                                       apply_filter_text(normal, trim(a.mode.buffer))
                                 [] key.code = "Esc" -> normal
                                 [] key.code = "Backspace" ->
                                       [a EXCEPT !.mode.buffer = pop(@)]
                                 [] key.code \notin NamedCodes ->
                                       [a EXCEPT !.mode.buffer = Append(@, key.code)]
                                 [] OTHER -> a)
                   [] a.mode.kind = "Prompt" ->
                         (CASE key.code = "Enter" /\ trim(a.mode.buffer) = <<>> -> quiet(normal)
                            [] key.code = "Enter" /\ trim(a.mode.buffer) /= <<>> ->
                                  [app |-> set_status(normal,
                                               StatusUpdate("Info", "Submitting magnet", <<>>)),
                                   command |-> Some([type |-> "AddMagnet",
                                                     magnet |-> trim(a.mode.buffer)])]
                            [] key.code = "Esc" -> quiet(normal)
                            [] key.code = "Backspace" ->
                                  quiet([a EXCEPT !.mode.buffer = pop(@)])
                            [] key.code \notin NamedCodes ->
                                  quiet([a EXCEPT !.mode.buffer = Append(@, key.code)])
                            [] OTHER -> quiet(a))
                   [] a.mode.kind = "Confirm" ->
                         (CASE key.code \in {"y", "Enter"} ->
                                  [app |-> set_status(normal,
                                               StatusUpdate("Info", "Removing",
                                                            a.mode.target_name)),
                                   command |-> Some([type |-> "RemoveTorrent",
                                                     id |-> a.mode.target_id,
                                                     name |-> a.mode.target_name,
                                                     delete_data |-> a.mode.delete_data])]
                            [] key.code \in {"n", "Esc"} ->
                                  quiet(set_status(normal,
                                            StatusUpdate("Info", "Deletion cancelled", <<>>)))
                            [] OTHER -> quiet(a))
                   [] a.mode.kind = "Help" ->
                         quiet(IF key.code \in {"?", "Esc", "Enter", "q"} THEN normal ELSE a)
                   [] a.mode.kind = "Preferences" ->
                         LET r == handle_key(a.mode.view, key)
                         IN  [app |-> [a EXCEPT !.mode = IF r.close THEN NormalMode
                                                         ELSE PreferencesMode(r.view)],
                              command |-> r.command])
          [] OTHER -> quiet(a)

\* a variant that asks for a refresh when a snapshot failed
process_event_RetriesSnapshot(a, event) ==
    LET quiet(c) == [app |-> c, command |-> None]
    IN  CASE event.type = "Input" -> handle_input(a, event.event)
          [] event.type = "Tick" -> quiet(expire_status(a))
          [] event.type = "Snapshot" ->
                [app |-> apply_snapshot(a, event.result),
                 command |-> IF event.result.ok THEN None ELSE Some([type |-> "Refresh"])]
          [] event.type = "Status" -> quiet(set_status(a, event.update))
          [] event.type = "FocusTorrent" -> quiet([a EXCEPT !.pending_focus = event.target])
          [] event.type = "Preferences" -> quiet(apply_preferences_event(a, event.result))

\* process_event: the new App and the command sent, if any
process_event(a, event) ==
    LET quiet(c) == [app |-> c, command |-> None]
    IN  CASE event.type = "Input" -> handle_input(a, event.event)
          [] event.type = "Tick" -> quiet(expire_status(a))
          [] event.type = "Snapshot" -> quiet(apply_snapshot(a, event.result))
          [] event.type = "Status" -> quiet(set_status(a, event.update))
          [] event.type = "FocusTorrent" -> quiet([a EXCEPT !.pending_focus = event.target])
          [] event.type = "Preferences" -> quiet(apply_preferences_event(a, event.result))

\* the key presses made while the worker is modelled
Keys == {Key("c", {"CONTROL"}), Key("q", {}), Key("o", {}), Key("Esc", {})}

\* the RpcCommand values sent from the reducer's other send sites
IssuedCommands ==
    { [type |-> "Refresh"],
      [type |-> "AddMagnet", magnet |-> MagnetText],
      [type |-> "RemoveTorrent", id |-> 2, name |-> NameBeta, delete_data |-> FALSE],
      [type |-> "ResumeTorrent", id |-> 2, name |-> NameBeta],
      [type |-> "PauseTorrent", id |-> 2, name |-> NameBeta],
      [type |-> "FetchPreferences"] }
    \cup { [type |-> "UpdatePreferences", prefs |-> preferences_from_response(v)] :
             v \in {w \in PreferencesValues : "download-dir" \in DOMAIN w} }

\* ------------------------------------------------------------------ state

VARIABLES
    session_id,     \* TransmissionClient.session_id
    counter,        \* TransmissionClient.counter
    use_json_rpc,   \* TransmissionClient.use_json_rpc
    poll_enabled,   \* rpc_worker_loop: poll_interval > 0
    wpc,            \* worker position: "recv", "send", "await", "exit"
    wcmd,           \* the command being handled ("Timeout": the automatic poll)
    wstage,         \* the handler's current RPC
    wacc,           \* fetch_snapshot's results so far
    wproto,         \* protocol of the current call_raw_inner attempt
    payload,        \* the payload perform_request was given
    wire,           \* the request sent last: payload and session header
    resp,           \* the response to it, once perform_request has looked at it
    result,         \* what the last finished client call returned
    called,         \* the RPCs the current handler has started, in order
    attempts,       \* protocols of the payloads built by the current call_raw
    emitted,        \* the events the current handler has sent, in order
    cmds,           \* command channel (reducer -> worker)
    rpc_tx_alive,   \* the reducer still holds the command sender
    events,         \* event channel (worker -> reducer)
    event_rx_alive, \* the reducer still holds the event receiver
    issued,         \* commands sent and polls taken after the initial Refresh
    app,            \* the reducer's App
    last_key,       \* the key press handle_input was given last, where recorded
    sent,           \* the command the reducer sent while processing its last event
    step,           \* the keys of the save scenario pressed so far
    ipc             \* input reader position: "poll", "read", "exit"

vars ==
    <<session_id, counter, use_json_rpc, poll_enabled, wpc, wcmd, wstage, wacc, wproto,
      payload, wire, resp, result, called, attempts, emitted, cmds, rpc_tx_alive, events,
      event_rx_alive, issued, app, now, last_key, sent, step, ipc>>

\* the clock, and the record of the reducer's last event: both stand still
\* while the worker is modelled
uiVars == <<now, last_key, sent, step, ipc>>

clientVars == <<session_id, counter, use_json_rpc>>
callVars == <<wstage, wacc, wproto, payload, wire, resp, result, called, attempts>>
workerVars == <<wpc, wcmd, emitted>>
channelVars == <<cmds, rpc_tx_alive, events, event_rx_alive>>

NoCommand == [type |-> "None"]

\* TransmissionClient::new, App::new and run up to its event loop: the
\* initial Refresh is on the command channel and the worker is at its recv.
\* Polling is on: a worker that never times out behaves as one whose
\* time-outs are never taken.
Init ==
    /\ session_id = None
    /\ counter = 1
    /\ use_json_rpc = TRUE
    /\ poll_enabled = TRUE
    /\ wpc = "recv"
    /\ wcmd = NoCommand
    /\ wstage = "none"
    /\ wacc = <<>>
    /\ wproto = "Json"
    /\ payload = None
    /\ wire = None
    /\ resp = None
    /\ result = None
    /\ called = <<>>
    /\ attempts = <<>>
    /\ emitted = <<>>
    /\ cmds = <<[type |-> "Refresh"]>>
    /\ rpc_tx_alive = TRUE
    /\ events = <<>>
    /\ event_rx_alive = TRUE
    /\ issued = 0
    /\ app = InitialApp
    /\ now = 0
    /\ last_key = None
    /\ sent = None
    /\ step = 0
    /\ ipc = "poll"

\* ------------------------------------------------------- client and worker

\* tx.send(event) for each event, results ignored: nothing is queued once
\* the receiver is gone
Emit(base, es) ==
    /\ emitted' = base \o es
    /\ events' = IF event_rx_alive THEN events \o es ELSE events

\* call_raw's dialect choice on entry
EntryProtocol(flag) == IF flag THEN "Json" ELSE "Legacy"

\* a variant that reads the counter without advancing it
BeginCall_ReusesTag(cmd, stage, calledBefore, flag) ==
    LET c == StageCall(cmd, stage)
        proto == EntryProtocol(flag)
    IN  /\ wstage' = stage
        /\ wproto' = proto
        /\ payload' = Some(BuildPayload(proto, c.method, c.arguments, counter))
        /\ counter' = counter
        /\ called' = Append(calledBefore, stage)
        /\ attempts' = <<proto>>
        /\ result' = None
        /\ wpc' = "send"

\* call_raw entered for `stage` with the dialect flag `flag`: call_raw_inner
\* builds the payload and takes the next counter value
BeginCall(cmd, stage, calledBefore, flag) ==
    LET c == StageCall(cmd, stage)
        proto == EntryProtocol(flag)
    IN  /\ wstage' = stage
        /\ wproto' = proto
        /\ payload' = Some(BuildPayload(proto, c.method, c.arguments, counter))
        /\ counter' = counter + 1
        /\ called' = Append(calledBefore, stage)
        /\ attempts' = <<proto>>
        /\ result' = None
        /\ wpc' = "send"

\* handle_command
StartHandler(cmd) ==
    /\ wcmd' = cmd
    /\ wacc' = <<>>
    /\ UNCHANGED <<session_id, use_json_rpc, wire, resp>>
    /\ IF cmd.type = "AddMagnet" /\ trim(cmd.magnet) = <<>>
       THEN /\ Emit(<<>>, <<StatusEvent(StatusUpdate("Info", "Ignoring empty magnet input",
                                                     <<>>))>>)
            /\ called' = <<>>
            /\ UNCHANGED <<counter, wpc, wstage, wproto, payload, result, attempts>>
       ELSE /\ Emit(<<>>, <<>>)
            /\ BeginCall(cmd, FirstStage(cmd), <<>>, use_json_rpc)

\* a variant that takes the command queued last
WorkerRecv_TakesNewest ==
    /\ wpc = "recv"
    /\ cmds /= <<>>
    /\ cmds' = SubSeq(cmds, 1, Len(cmds) - 1)
    /\ StartHandler(cmds[Len(cmds)])
    /\ UNCHANGED <<poll_enabled, uiVars, rpc_tx_alive, event_rx_alive, issued, app>>

\* rx.recv() / rx.recv_timeout() returning Ok(cmd)
WorkerRecv ==
    /\ wpc = "recv"
    /\ cmds /= <<>>
    /\ cmds' = Tail(cmds)
    /\ StartHandler(Head(cmds))
    /\ UNCHANGED <<poll_enabled, uiVars, rpc_tx_alive, event_rx_alive, issued, app>>

\* a variant that times out with commands waiting
WorkerTimeout_IgnoresQueue ==
    /\ wpc = "recv"
    /\ poll_enabled
    /\ rpc_tx_alive
    /\ issued < MaxCommands
    /\ issued' = issued + 1
    /\ StartHandler([type |-> "Timeout"])
    /\ UNCHANGED <<poll_enabled, uiVars, cmds, rpc_tx_alive, event_rx_alive, app>>

\* rx.recv_timeout() returning Timeout: send_snapshot
WorkerTimeout ==
    /\ wpc = "recv"
    /\ poll_enabled
    /\ cmds = <<>>
    /\ rpc_tx_alive
    /\ issued < MaxCommands
    /\ issued' = issued + 1
    /\ StartHandler([type |-> "Timeout"])
    /\ UNCHANGED <<poll_enabled, uiVars, cmds, rpc_tx_alive, event_rx_alive, app>>

\* recv on an empty, disconnected channel: the loop ends
WorkerDisconnected ==
    /\ wpc = "recv"
    /\ cmds = <<>>
    /\ ~rpc_tx_alive
    /\ wpc' = "exit"
    /\ UNCHANGED <<clientVars, callVars, channelVars, poll_enabled, uiVars, wcmd, emitted, issued,
                   app>>

\* perform_request: the request leaves with the stored session token
SendRequest ==
    /\ wpc = "send"
    /\ wire' = Some([payload |-> Unwrap(payload), session_header |-> session_id])
    /\ resp' = None
    /\ wpc' = "await"
    /\ UNCHANGED <<clientVars, channelVars, poll_enabled, uiVars, wcmd, wstage, wacc, wproto,
                   payload, result, called, attempts, emitted, issued, app>>

\* a variant that retries after every RPC error
call_raw_retries_AnyRpcError(protocol, res) ==
    protocol = "Json" /\ ~res.ok /\ res.err.kind = "Rpc"

\* call_raw's match on the first attempt's result: retry in the legacy dialect?
call_raw_retries(protocol, res) ==
    protocol = "Json" /\ ~res.ok /\ should_retry_in_legacy(res.err)

\* a variant that goes back to JSON-RPC once a legacy attempt succeeds
FlagAfterAttempt_RestoredOnSuccess(flag, protocol, res) ==
    IF call_raw_retries(protocol, res) THEN FALSE
    ELSE IF protocol = "Legacy" /\ res.ok THEN TRUE ELSE flag

\* the dialect flag after an attempt returned res
FlagAfterAttempt(flag, protocol, res) ==
    IF call_raw_retries(protocol, res) THEN FALSE ELSE flag

\* a variant that keeps a token it already has
StoreToken_KeepFirst(stored, token) == IF IsSome(stored) THEN stored ELSE Some(token)

\* perform_request's *guard = Some(value)
StoreToken(stored, token) == Some(token)

\* a variant that leaves the loop when the handler's RPC failed
AfterHandler_ExitOnError(res) == IF res.ok THEN "recv" ELSE "exit"

\* rpc_worker_loop after handle_command / send_snapshot returned
AfterHandler(res) == "recv"

\* the handler takes the typed result: it sends its events and goes on to its
\* next RPC, or returns to the receive loop
HandlerReturn(typed) ==
    LET h == IF typed.ok THEN HandlerOnOk(wcmd, wstage, typed.value, wacc)
             ELSE HandlerOnErr(wcmd, wstage, typed.err)
    IN  /\ Emit(emitted, h.emits)
        /\ wacc' = h.acc
        /\ UNCHANGED wcmd
        /\ IF h.next = "done"
           THEN /\ wpc' = AfterHandler(typed)
                /\ result' = Some(typed)
                /\ UNCHANGED <<counter, wstage, wproto, payload, called, attempts>>
           ELSE BeginCall(wcmd, h.next, called, use_json_rpc')

\* the call returns to a caller that takes no further step of its own
CallerReturn(typed) ==
    /\ result' = Some(typed)
    /\ wpc' = "recv"
    /\ UNCHANGED <<counter, wcmd, wstage, wacc, wproto, payload, called, attempts, emitted,
                   events>>

\* the caller a typed call returns to: a handler of the worker, or a caller
\* that only takes the result
Return(caller, typed) ==
    IF caller = "handler" THEN HandlerReturn(typed) ELSE CallerReturn(typed)

\* The response (or the failed send) reaches perform_request.  A 409 with a
\* token loops; a first attempt that asks for it is retried by call_raw in the
\* legacy dialect; otherwise the typed call returns to its caller.
Exchange(r, caller) ==
    /\ wpc = "await"
    /\ resp' = Some(r)
    /\ UNCHANGED wire
    /\ LET out == ResponseOutcome(r)
       IN  IF out.continue
           THEN /\ session_id' = StoreToken(session_id, out.token)
                /\ wpc' = "send"
                /\ UNCHANGED <<counter, use_json_rpc, wcmd, wstage, wacc, wproto, payload,
                               result, called, attempts, emitted, events>>
           ELSE /\ UNCHANGED session_id
                /\ use_json_rpc' = FlagAfterAttempt(use_json_rpc, wproto, out.result)
                /\ IF call_raw_retries(wproto, out.result)
                   THEN LET c == StageCall(wcmd, wstage)
                        IN  /\ wproto' = "Legacy"
                            /\ payload' = Some(BuildPayload("Legacy", c.method, c.arguments,
                                                            counter))
                            /\ counter' = counter + 1
                            /\ attempts' = Append(attempts, "Legacy")
                            /\ wpc' = "send"
                            /\ UNCHANGED <<wcmd, wstage, wacc, result, called, emitted,
                                           events>>
                   ELSE Return(caller, IF out.result.ok
                                       THEN Decode(wstage, out.result.value)
                                       ELSE out.result)

ReceiveResponse(r) ==
    /\ Exchange(r, "handler")
    /\ UNCHANGED <<poll_enabled, uiVars, cmds, rpc_tx_alive, event_rx_alive, issued, app>>

\* the daemon (or the network) answers the worker's request
Daemon ==
    \E r \in PlainResponses(wstage, wproto) : ReceiveResponse(r)

\* -------------------------------------------------------------- reducer

\* run_loop: events.recv() then process_event, for a worker event
ProcessEvent ==
    /\ ~app.should_quit
    /\ events /= <<>>
    /\ app' = process_event(app, Head(events)).app
    /\ events' = Tail(events)
    /\ UNCHANGED <<clientVars, callVars, workerVars, poll_enabled, uiVars, cmds, rpc_tx_alive,
                   event_rx_alive, issued>>

\* the user acts on a settled screen: the worker is idle and the reducer has
\* drained both channels; quitting is possible at any moment
Settled == wpc = "recv" /\ cmds = <<>> /\ events = <<>>

\* run_loop: a key press; on quit, run drops the command sender and the
\* event receiver
Input ==
    \E key \in Keys :
        LET h == handle_input(app, [kind |-> "Key", key |-> key])
        IN  /\ ~app.should_quit
            /\ ~h.app.should_quit => Settled
            /\ IsSome(h.command) => issued < MaxCommands
            /\ app' = h.app
            /\ cmds' = IF IsSome(h.command) THEN Append(cmds, Unwrap(h.command)) ELSE cmds
            /\ issued' = IF IsSome(h.command) THEN issued + 1 ELSE issued
            /\ rpc_tx_alive' = ~h.app.should_quit
            /\ event_rx_alive' = ~h.app.should_quit
            /\ events' = IF h.app.should_quit THEN <<>> ELSE events
            /\ UNCHANGED <<clientVars, callVars, workerVars, poll_enabled, uiVars>>

\* rpc_tx.send(cmd) from the reducer
Issue ==
    \E cmd \in IssuedCommands :
        /\ ~app.should_quit
        /\ Settled
        /\ issued < MaxCommands
        /\ cmds' = Append(cmds, cmd)
        /\ issued' = issued + 1
        /\ UNCHANGED <<clientVars, callVars, workerVars, poll_enabled, uiVars, rpc_tx_alive, events,
                       event_rx_alive, app>>

Next ==
    \/ WorkerRecv
    \/ WorkerTimeout
    \/ WorkerDisconnected
    \/ SendRequest
    \/ Daemon
    \/ ProcessEvent
    \/ Input
    \/ Issue

Spec == Init /\ [][Next]_vars

\* ------------------------------------------ the client under arbitrary calls

\* the typed client calls the handlers make
ApiCalls ==
    { [cmd |-> c, stage |-> FirstStage(c)] : c \in IssuedCommands }
    \cup { [cmd |-> [type |-> "Refresh"], stage |-> st] :
             st \in {"session_stats", "session_get_version"} }
    \cup { [cmd |-> c, stage |-> "session_get_prefs"] :
             c \in {d \in IssuedCommands : d.type = "UpdatePreferences"} }

\* the worker thread enters a client call
ClientCall ==
    \E c \in ApiCalls :
        /\ wpc = "recv"
        /\ counter <= MaxTag
        /\ wcmd' = c.cmd
        /\ BeginCall(c.cmd, c.stage, <<>>, use_json_rpc)
        /\ UNCHANGED <<session_id, use_json_rpc, wire, resp, wacc, emitted, channelVars,
                       poll_enabled, uiVars, issued, app>>

\* any answer a daemon or the network can give
AnyDaemon ==
    \E r \in Responses(wstage) :
        /\ Exchange(r, "caller")
        /\ UNCHANGED <<poll_enabled, uiVars, cmds, rpc_tx_alive, event_rx_alive, issued, app>>

NextRpc ==
    \/ ClientCall
    \/ SendRequest
    \/ AnyDaemon

SpecRpc == Init /\ [][NextRpc]_vars

\* the daemon gives an answer that is not a 409 carrying a token
Answered ==
    \E r \in Responses(wstage) :
        /\ ~ResponseOutcome(r).continue
        /\ Exchange(r, "caller")
        /\ UNCHANGED <<poll_enabled, uiVars, cmds, rpc_tx_alive, event_rx_alive, issued, app>>

\* a request built is sent, and the daemon does not answer 409 with a token
\* for ever
SpecRpcLive == SpecRpc /\ WF_vars(SendRequest) /\ SF_vars(Answered)

\* ------------------------------------------ the reducer under arbitrary events

\* AppEvent::Input(Event::Key(..)) for a key press
KeyEvent(code, modifiers) ==
    [type |-> "Input", event |-> [kind |-> "Key", key |-> Key(code, modifiers)]]

\* AppEvent::Input(Event::Paste(..)) for the text pasted
PasteEvent == [type |-> "Input", event |-> [kind |-> "Paste", data |-> <<"m">>]]

\* AppEvent::Snapshot(Ok(..)) for a list of (id, name) pairs
SnapshotOf(pairs) ==
    SnapshotEvent(Ok(MakeSnapshot(
        [i \in DOMAIN pairs |-> torrent_summary_from(TorrentWire(pairs[i][1], pairs[i][2]))],
        Decode("session_stats", EmptyObject).value,
        Decode("session_get_version", EmptyObject).value)))

\* every binding and every mode: the keys of all modes, a paste, a resize, a
\* tick, and the worker's events
UiEvents ==
    { KeyEvent(c, {}) : c \in {"q", "r", "R", "p", "a", "/", "j", "k", "g", "G", "o", "?",
                               "d", "y", "n", "Enter", "Esc", "Backspace"} }
    \cup { KeyEvent(c, {"CONTROL"}) : c \in {"c", "d", "u"} }
    \cup { KeyEvent(c, {"SHIFT"}) : c \in {"r", "g"} }
    \cup { PasteEvent, [type |-> "Input", event |-> [kind |-> "Resize"]], [type |-> "Tick"],
           PreferencesEvent(Err(HttpError)),
           SnapshotOf(<< <<1, NameAlpha>>, <<2, NameBeta>> >>) }

\* snapshots, focus requests, filter edits and movement: lists of alpha (1),
\* Beta (2) and foo (3); the filter keys and the movement keys
SelectionEvents ==
    { KeyEvent(c, {}) : c \in {"/", "a", "o", " ", "j", "k", "g", "G", "Enter", "Esc",
                               "Backspace"} }
    \cup { KeyEvent(c, {"CONTROL"}) : c \in {"d", "u"} }
    \cup { KeyEvent(c, {"SHIFT"}) : c \in {"g", "B"} }
    \cup { PasteEvent, [type |-> "Tick"], SnapshotEvent(Err(HttpError)) }
    \cup { SnapshotOf(pairs) :
             pairs \in { << <<1, NameAlpha>>, <<2, NameBeta>>, <<3, NameFoo>> >>,
                         << <<2, NameBeta>>, <<3, NameFoo>> >>,
                         << <<1, NameAlpha>>, <<3, NameFoo>> >>,
                         << >> } }
    \cup { FocusEvent(target) : target \in {None, Some(1), Some(3)} }

\* delete arming against the clock: d and the keys around it, a paste, ticks
ArmingEvents ==
    { KeyEvent(c, {}) : c \in {"d", "j", "y", "Enter", "Esc"} }
    \cup { KeyEvent(c, {"CONTROL"}) : c \in {"c", "d"} }
    \cup { PasteEvent, [type |-> "Tick"],
           SnapshotOf(<< <<1, NameAlpha>>, <<2, NameBeta>> >>),
           SnapshotOf(<< <<2, NameBeta>> >>) }

\* the preferences modal: its keys, the digit 5 for the inline editor, and
\* the replies to FetchPreferences and UpdatePreferences
PrefsEvents ==
    { KeyEvent(c, {}) : c \in {"o", "j", "k", " ", "s", "r", "R", "q", "5", "Enter", "Esc",
                               "Backspace", "Right"} }
    \cup { KeyEvent("c", {"CONTROL"}), PreferencesEvent(Err(HttpError)) }
    \cup { PreferencesEvent(Ok(preferences_from_response(v))) : v \in PreferencesValues }

\* the characters the user enters into a Filter or Prompt buffer: a matches
\* Alpha and Beta, B matches Beta, m (the text pasted) matches no name
TypedChars == {"a", "B", "m"}

\* run_loop: one event from `es` is received and processed to completion; the
\* worker takes the command sent, if any, off the queue.  With `record`, the
\* key pressed is remembered in last_key.  Buffers hold at most MaxBuffer
\* characters out of TypedChars; every key of `es` is pressed in every mode
\* all the same, the ones that would enter another character being examined
\* by the properties one step ahead.
ReduceFrom(es, record) ==
    \E e \in es :
        LET r == process_event(app, e)
        IN  /\ ~app.should_quit
            /\ app' = r.app
            /\ sent' = r.command
            /\ app'.mode.kind \in {"Filter", "Prompt"} =>
                  /\ Len(app'.mode.buffer) <= MaxBuffer
                  /\ \A i \in DOMAIN app'.mode.buffer : app'.mode.buffer[i] \in TypedChars
            /\ (app'.mode.kind = "Preferences" /\ app'.mode.view.kind = "Ready") =>
                  /\ app'.mode.view.form.selected <= MaxField
                  /\ IsSome(app'.mode.view.form.editing) =>
                        /\ Len(app'.mode.view.form.editing[1].buffer) <= MaxBuffer
                        /\ \A i \in DOMAIN app'.mode.view.form.editing[1].buffer :
                               app'.mode.view.form.editing[1].buffer[i] \in {"/", "d", "e", "5"}
            /\ last_key' = IF record /\ e.type = "Input" /\ e.event.kind = "Key"
                           THEN Some(e.event.key) ELSE last_key
            /\ UNCHANGED <<now, step, ipc, clientVars, callVars, workerVars, channelVars,
                           poll_enabled, issued>>

\* a second passes
Advance ==
    /\ now < MaxNow
    /\ ~app.should_quit
    /\ now' = now + 1
    /\ UNCHANGED <<clientVars, callVars, workerVars, channelVars, poll_enabled, issued, app,
                   last_key, sent, step, ipc>>

SpecUi == Init /\ [][ReduceFrom(UiEvents, FALSE)]_vars
SpecSelection == Init /\ [][ReduceFrom(SelectionEvents, FALSE)]_vars
SpecArming == Init /\ [][ReduceFrom(ArmingEvents, TRUE) \/ Advance]_vars
SpecPrefs == Init /\ [][ReduceFrom(PrefsEvents, FALSE)]_vars

\* ------------------------------------------- the inline editor, key by key

\* the texts the user commits in the inline editor: a negative number, zero,
\* a small number, a text that is no number, 2^32 and 2^32 + 5
EditorTexts ==
    { <<"-", "1">>, <<"0">>, <<"7">>, <<"x">>,
      <<"4", "2", "9", "4", "9", "6", "7", "2", "9", "6">>,
      <<"4", "2", "9", "4", "9", "6", "7", "3", "0", "1">> }

\* the ratio is held in hundredths, which leaves room for one digit only
TextsFor(field) ==
    IF field = "SeedRatioLimit" THEN { t \in EditorTexts : Len(t) = 1 } ELSE EditorTexts

EditorEvents ==
    { KeyEvent(c, {}) : c \in {"o", "j", "Enter", "Backspace", "Esc", "-", "0", "1", "2",
                               "3", "4", "6", "7", "9", "x"} }
    \cup { PreferencesEvent(Ok(preferences_from_response(v))) : v \in PreferencesValues }

\* run_loop: one event of EditorEvents is received and processed.  The user
\* opens an editor on a form without changes only, presses Enter outside an
\* editor on a field that has one only, and types towards one of the texts
\* of the field after deleting some of the value shown.
Edit ==
    \E e \in EditorEvents :
        /\ ~app.should_quit
        /\ (e = KeyEvent("Enter", {}) /\ app.mode.kind = "Preferences"
              /\ app.mode.view.kind = "Ready" /\ ~IsSome(app.mode.view.form.editing)) =>
                 /\ ~app.mode.view.form.dirty
                 /\ requires_editor(PREFERENCE_FORM_FIELDS[app.mode.view.form.selected + 1])
        /\ app' = process_event(app, e).app
        /\ sent' = process_event(app, e).command
        /\ (app'.mode.kind = "Preferences" /\ app'.mode.view.kind = "Ready"
              /\ IsSome(app'.mode.view.form.editing)) =>
                 \E t \in TextsFor(app'.mode.view.form.editing[1].field) \cup
                          {initial_value(app'.mode.view.form.editing[1].field,
                                         app'.mode.view.form.prefs)} :
                     /\ Len(app'.mode.view.form.editing[1].buffer) <= Len(t)
                     /\ app'.mode.view.form.editing[1].buffer =
                            SubSeq(t, 1, Len(app'.mode.view.form.editing[1].buffer))
        /\ UNCHANGED <<now, last_key, step, ipc, clientVars, callVars, workerVars, channelVars,
                       poll_enabled, issued>>

SpecEditor == Init /\ [][Edit]_vars

\* ------------------------------------- the save scenario against the worker

\* the keys of the preferences save scenario: the modal is opened and closed
\* once, which fills the cache; then o, down to SpeedLimitUp, Enter, 250,
\* Enter, s
Preamble == <<"o", "Esc">>
SaveScript == Preamble \o <<"o", "j", "j", "j", "Enter", "2", "5", "0", "Enter", "s">>

\* run_loop: the next key of the scenario arrives and is processed, at any
\* moment; a command it returns goes onto the command channel
Press ==
    LET r == process_event(app, KeyEvent(SaveScript[step + 1], {}))
    IN  /\ step < Len(SaveScript)
        /\ step = Len(Preamble) => IsSome(app.preferences_cache)
        /\ step' = step + 1
        /\ app' = r.app
        /\ sent' = r.command
        /\ cmds' = IF IsSome(sent') THEN Append(cmds, Unwrap(sent')) ELSE cmds
        /\ UNCHANGED <<clientVars, callVars, workerVars, poll_enabled, now, last_key, ipc,
                       rpc_tx_alive, events, event_rx_alive, issued>>

SpecSave == Init /\ [][WorkerRecv \/ SendRequest \/ Daemon \/ ProcessEvent \/ Press]_vars

\* the worker takes a waiting command, every RPC call returns, and run_loop
\* applies a waiting event
SpecSaveLive ==
    /\ SpecSave
    /\ WF_vars(WorkerRecv)
    /\ WF_vars(SendRequest)
    /\ WF_vars(Daemon)
    /\ WF_vars(ProcessEvent)

\* ------------------------------------------------- the threads at shutdown

\* the events the input reader reads off the terminal: q, which quits in
\* Normal mode, and j, which does not
TerminalEvents == {KeyEvent("q", {}), KeyEvent("j", {})}

\* tx.send(event) in the input reader: Ok while the reducer holds the
\* receiver (the event is queued), Err once it is gone
InputSend(event, onError) ==
    IF event_rx_alive
    THEN /\ Len(events) < MaxEvents
         /\ events' = Append(events, event)
         /\ ipc' = "poll"
    ELSE /\ events' = events
         /\ ipc' = onError

\* spawn_input_thread: event::poll(tick_rate) returns.  Ok(true) goes on to
\* event::read(); Ok(false) and Err(_) send a Tick and leave the loop if the
\* send fails.
InputPoll ==
    /\ ipc = "poll"
    /\ \/ ipc' = "read" /\ UNCHANGED events
       \/ InputSend([type |-> "Tick"], "exit")
    /\ UNCHANGED <<clientVars, callVars, workerVars, poll_enabled, now, last_key, sent, step,
                   cmds, rpc_tx_alive, event_rx_alive, issued, app>>

\* spawn_input_thread: event::read() returns.  Ok(evt) sends the event and
\* leaves the loop if the send fails; Err(err) sends a status whose result is
\* dropped, and the loop goes on.
InputRead ==
    /\ ipc = "read"
    /\ \/ \E evt \in TerminalEvents : InputSend(evt, "exit")
       \/ InputSend(StatusEvent(StatusUpdate("Error", "Input error", [kind |-> "Io"])), "poll")
    /\ UNCHANGED <<clientVars, callVars, workerVars, poll_enabled, now, last_key, sent, step,
                   cmds, rpc_tx_alive, event_rx_alive, issued, app>>

\* run_loop and the end of run: the next event, from either thread, is
\* received and processed; once should_quit is set the loop ends, and run
\* drops the event receiver and both command senders
RunLoop ==
    LET r == process_event(app, Head(events))
    IN  /\ ~app.should_quit
        /\ events /= <<>>
        /\ app' = r.app
        /\ sent' = r.command
        /\ cmds' = IF IsSome(sent') THEN Append(cmds, Unwrap(sent')) ELSE cmds
        /\ events' = IF app'.should_quit THEN <<>> ELSE Tail(events)
        /\ rpc_tx_alive' = ~app'.should_quit
        /\ event_rx_alive' = ~app'.should_quit
        /\ UNCHANGED <<clientVars, callVars, workerVars, poll_enabled, now, last_key, step, ipc,
                       issued>>

NextShutdown ==
    \/ WorkerRecv
    \/ WorkerDisconnected
    \/ SendRequest
    \/ Daemon
    \/ InputPoll
    \/ InputRead
    \/ RunLoop

\* every thread that can take a step takes one: an RPC in flight returns,
\* event::poll and event::read return, a receive on a closed channel returns
SpecShutdown ==
    /\ Init
    /\ [][NextShutdown]_vars
    /\ WF_vars(WorkerRecv)
    /\ WF_vars(WorkerDisconnected)
    /\ WF_vars(SendRequest)
    /\ WF_vars(Daemon)
    /\ WF_vars(InputPoll)
    /\ WF_vars(InputRead)

\* ------------------------------------------------------------------ claims

\* the step in which perform_request looks at a response, and that response
Received == wpc = "await" /\ resp' /= None
Seen == Unwrap(resp')

\* what the typed call hands its caller for the raw result res
ReturnedBy(res) == IF res.ok THEN Decode(wstage, res.value) ELSE res

\* the response ends the attempt
EndsAttempt(r) == ~ResponseOutcome(r).continue

\* the response makes the typed call fail
FailsCall(r) == EndsAttempt(r) /\ ~ReturnedBy(ResponseOutcome(r).result).ok

ConflictWithHeader(r) == r.kind = "http" /\ r.status = 409 /\ IsSome(r.session_header)
ConflictWithToken(r) == ConflictWithHeader(r) /\ Unwrap(r.session_header).ascii

\* the same payload goes out again and the caller has seen nothing
Resent ==
    /\ wpc' = "send"
    /\ payload' = payload
    /\ counter' = counter
    /\ result' = None
    /\ UNCHANGED <<wstage, wproto, attempts, emitted, events, use_json_rpc>>

\* the error for which the claims have the client change dialect
MethodNotFound(err) ==
    /\ err.kind = "Rpc"
    /\ \/ err.code = -32601
       \/ contains(to_ascii_lowercase(err.message), MethodNotFoundText)
       \/ contains(to_ascii_lowercase(err.message), MethodNameNotRecognizedText)

\* C1: the dialect flag starts as JSON-RPC and, once legacy, is never set
\* back to JSON-RPC.
C1_DialectFlagMonotonic == (use_json_rpc = TRUE) /\ [][~use_json_rpc => ~use_json_rpc']_vars

\* a later call has run in the legacy dialect alone
C1_Witness ==
    /\ ~use_json_rpc
    /\ attempts = <<"Legacy">>
    /\ wpc = "recv"
    /\ result /= None

\* C2 (amended): a 409 whose session header reads as text makes the client
\* store that token and resend the identical payload (same tag, counter
\* untouched) with the stored token, the caller seeing nothing of it; the
\* stored token changes in no other step, so it is the last token received.
C2_ReadableTokenStoredAndResent ==
    [][/\ (Received /\ ConflictWithToken(Seen))
            => (session_id' = Some(Unwrap(Seen.session_header).text) /\ Resent)
       /\ (wpc = "send" /\ wpc' = "await")
            => wire' = Some([payload |-> Unwrap(payload), session_header |-> session_id])
       /\ (session_id' /= session_id) => (Received /\ ConflictWithToken(Seen))]_vars

\* C2 as stated: every 409 that carries the header is stored and resent.
C2_AnyHeaderStoredAndResent ==
    [][(Received /\ ConflictWithHeader(Seen))
            => (session_id' = Some(Unwrap(Seen.session_header).text) /\ Resent)]_vars

\* a second 409 has replaced the token the request went out with
C2_Witness ==
    /\ wpc = "send"
    /\ resp /= None
    /\ ConflictWithToken(Unwrap(resp))
    /\ wire /= None
    /\ IsSome(Unwrap(wire).session_header)
    /\ Unwrap(wire).session_header /= session_id
    /\ session_id = Some(Unwrap(Unwrap(resp).session_header).text)
    /\ Unwrap(wire).payload = Unwrap(payload)

\* C3: a JSON-RPC attempt that fails with method-not-found (code -32601, or
\* either phrase in the message, whatever its case) switches the flag and
\* retries the same call once in the legacy dialect; a legacy attempt's
\* outcome is returned; with the flag legacy, a call makes one legacy attempt
\* and no JSON-RPC request leaves.
C3_MethodNotFoundSwitchesOnce ==
    [][/\ (Received /\ wproto = "Json" /\ EndsAttempt(Seen)
           /\ ~ResponseOutcome(Seen).result.ok
           /\ MethodNotFound(ResponseOutcome(Seen).result.err))
            => /\ ~use_json_rpc'
               /\ wproto' = "Legacy"
               /\ wpc' = "send"
               /\ payload' = Some(BuildPayload("Legacy", StageCall(wcmd, wstage).method,
                                               StageCall(wcmd, wstage).arguments, counter))
               /\ counter' = counter + 1
               /\ attempts' = <<"Json", "Legacy">>
               /\ result' = None
               /\ UNCHANGED <<wcmd, wstage, session_id>>
       /\ (Received /\ wproto = "Legacy" /\ EndsAttempt(Seen))
            => /\ wpc' = "recv"
               /\ result' = Some(ReturnedBy(ResponseOutcome(Seen).result))
               /\ counter' = counter
               /\ ~use_json_rpc'
       /\ (~use_json_rpc /\ wpc = "recv" /\ wpc' = "send")
            => (attempts' = <<"Legacy">> /\ wproto' = "Legacy")
       /\ (~use_json_rpc /\ wire' /= wire)
            => "jsonrpc" \notin DOMAIN Unwrap(wire').payload]_vars

\* the retried call has returned what its legacy attempt gave
C3_Witness ==
    /\ attempts = <<"Json", "Legacy">>
    /\ wpc = "recv"
    /\ ~use_json_rpc
    /\ result /= None
    /\ Unwrap(result).ok
    /\ "jsonrpc" \notin DOMAIN Unwrap(wire).payload

\* C4: a JSON-RPC attempt that fails with any other error returns that error
\* to the caller: no legacy payload is built and the flag stays as it was.
C4_OtherErrorsPropagate ==
    [][(Received /\ wproto = "Json" /\ EndsAttempt(Seen)
        /\ ~ResponseOutcome(Seen).result.ok
        /\ ~MethodNotFound(ResponseOutcome(Seen).result.err))
            => /\ result' = Some(ResponseOutcome(Seen).result)
               /\ wpc' = "recv"
               /\ UNCHANGED <<use_json_rpc, counter, attempts, payload, wproto>>]_vars

\* an RPC error that only resembles method-not-found came back as it was
C4_Witness ==
    /\ result = Some(Err(RpcError(LegacyErrorCode, TorrentNotFoundText)))
    /\ attempts = <<"Json">>
    /\ use_json_rpc
    /\ wpc = "recv"

\* the call fails at once with err: no request follows and the token stays
FailsAtOnce(err) ==
    /\ result' = Some(Err(err))
    /\ wpc' = "recv"
    /\ UNCHANGED <<session_id, counter, wire, payload>>

\* C5: a request is resent only after a 409 that carries the session header;
\* 401 gives Authentication, a 409 without the header Session, any other
\* non-2xx status HttpStatus(code), each at once and with the token unchanged.
C5_OnlyConflictResends ==
    [][Received =>
          /\ (wpc' = "send" /\ payload' = payload) => ConflictWithHeader(Seen)
          /\ (Seen.kind = "http" /\ Seen.status = 401) => FailsAtOnce(AuthenticationError)
          /\ (Seen.kind = "http" /\ Seen.status = 409 /\ ~IsSome(Seen.session_header))
                => FailsAtOnce(SessionError)
          /\ (Seen.kind = "http" /\ Seen.status \notin (200..299) \cup {401, 409})
                => FailsAtOnce(HttpStatusError(Seen.status))]_vars

\* a redirect failed a request that carried the stored token
C5_Witness ==
    /\ result = Some(Err(HttpStatusError(302)))
    /\ wpc = "recv"
    /\ IsSome(session_id)
    /\ Unwrap(wire).session_header = session_id

\* ---------------------------------------------------- claims on the worker

\* the step in which the reducer applies the event at the head of the channel
Applied == events /= <<>> /\ events' = Tail(events) /\ ~app'.should_quit

OpCommand == wcmd.type \in {"AddMagnet", "RemoveTorrent", "ResumeTorrent", "PauseTorrent"}

HandlerRunning == wpc \in {"send", "await"}

ErrorStatusEvent(e) == e.type = "Status" /\ e.update.level = "Error"

FailureEvent(e) ==
    \/ ErrorStatusEvent(e)
    \/ e.type \in {"Snapshot", "Preferences"} /\ ~e.result.ok

\* the error the typed call returns when the response r fails it
ErrorOf(r) == ReturnedBy(ResponseOutcome(r).result).err

\* C6: an RPC that fails leaves the worker in its receive loop; the worker
\* only ends from its receive with the command channel empty and its sender
\* dropped.
C6_FailureKeepsWorker ==
    [][/\ (Received /\ FailsCall(Seen)) => wpc' = "recv"
       /\ (wpc' = "exit" /\ wpc /= "exit")
            => (wpc = "recv" /\ cmds = <<>> /\ ~rpc_tx_alive)]_vars

\* after a failed refresh the worker is handling the next command
C6_Witness ==
    /\ wpc = "send"
    /\ wcmd.type = "RemoveTorrent"
    /\ IsSome(app.status)
    /\ Unwrap(app.status).level = "Error"
    /\ Unwrap(app.status).text[1] = "RPC error"

\* C7: a failed RPC makes its handler send one event carrying the error (an
\* Error status for add/remove/resume/pause, Snapshot(Err) for a snapshot
\* fetch, Preferences(Err) for a preferences fetch or update), and the
\* reducer's status is at level Error once it has applied such an event.
C7_FailuresSurfaceAsErrorStatus ==
    [][/\ (Received /\ FailsCall(Seen))
            => /\ Len(emitted') = Len(emitted) + 1
               /\ LET e == emitted'[Len(emitted')]
                  IN  /\ wstage \in OpStages
                         => (ErrorStatusEvent(e) /\ e.update.text[2] = ErrorOf(Seen))
                      /\ wstage \in SnapshotStages => e = SnapshotEvent(Err(ErrorOf(Seen)))
                      /\ wstage \in {"session_set", "session_get_prefs"}
                         => e = PreferencesEvent(Err(ErrorOf(Seen)))
                      /\ event_rx_alive => events' = Append(events, e)
       /\ (Applied /\ FailureEvent(Head(events)))
            => (IsSome(app'.status) /\ Unwrap(app'.status).level = "Error")]_vars

\* the reducer shows a failed preferences RPC
C7_Witness ==
    /\ IsSome(app.status)
    /\ Unwrap(app.status).level = "Error"
    /\ Unwrap(app.status).text[1] = "Preferences error"
    /\ wcmd.type = "UpdatePreferences"

\* C8: the events of an add/remove/resume/pause command come as status, then
\* focus (if any), then snapshot; when the command's own RPC failed, the
\* error status is the only event.
C8_StatusFocusSnapshotOrder ==
    OpCommand =>
        /\ \A i \in 1..Len(emitted) :
              emitted[i].type \in {"FocusTorrent", "Snapshot"}
                 => (i > 1 /\ emitted[1].type = "Status")
        /\ \A i, j \in 1..Len(emitted) :
              i < j => /\ ~(emitted[i].type = "Snapshot"
                            /\ emitted[j].type \in {"Status", "FocusTorrent", "Snapshot"})
                       /\ ~(emitted[i].type = "FocusTorrent"
                            /\ emitted[j].type \in {"Status", "FocusTorrent"})
        /\ (called = <<FirstStage(wcmd)>> /\ result /= None /\ ~Unwrap(result).ok)
              => (Len(emitted) = 1 /\ ErrorStatusEvent(emitted[1]))

\* an add has sent its status, its focus and its snapshot
C8_Witness ==
    /\ wcmd.type = "AddMagnet"
    /\ Len(emitted) = 3
    /\ emitted[1].type = "Status"
    /\ emitted[2].type = "FocusTorrent"
    /\ emitted[3].type = "Snapshot"

\* C9: UpdatePreferences calls session_set, then session_get; when both
\* succeed it sends Preferences(Ok(refreshed)) and then a Success status;
\* when either fails it sends Preferences(Err) and nothing else.
C9_UpdatePreferencesEvents ==
    wcmd.type = "UpdatePreferences" =>
        /\ called \in {<<"session_set">>, <<"session_set", "session_get_prefs">>}
        /\ HandlerRunning => (emitted = <<>> /\ result = None)
        /\ ~HandlerRunning =>
              /\ result /= None
              /\ IF Unwrap(result).ok
                 THEN /\ called = <<"session_set", "session_get_prefs">>
                      /\ Len(emitted) = 2
                      /\ emitted[1] = PreferencesEvent(Ok(Unwrap(result).value))
                      /\ emitted[2].type = "Status"
                      /\ emitted[2].update.level = "Success"
                 ELSE emitted = <<PreferencesEvent(Err(Unwrap(result).err))>>

\* an update has sent the refreshed preferences and its status
C9_Witness ==
    /\ wcmd.type = "UpdatePreferences"
    /\ Len(emitted) = 2
    /\ emitted[1].type = "Preferences"
    /\ emitted[1].result.ok

IsSnapshotStage(stage) == stage \in SnapshotStages

IsPrefix(s, t) == Len(s) <= Len(t) /\ s = SubSeq(t, 1, Len(s))

\* C10: fetch_snapshot calls torrent_get, session_stats and session_get in
\* that order; a Snapshot(Ok) is sent only after all three, and a failure of
\* one ends the fetch with Snapshot(Err); applying a failed snapshot leaves
\* the reducer's snapshot, filtered view, selection and pending focus as
\* they were.
C10_SnapshotAllOrNothing ==
    /\ [](/\ IsPrefix(SelectSeq(called, IsSnapshotStage),
                      <<"torrent_get", "session_stats", "session_get_version">>)
          /\ \A i \in 1..Len(emitted) :
                (emitted[i].type = "Snapshot" /\ emitted[i].result.ok)
                   => (/\ SelectSeq(called, IsSnapshotStage)
                            = <<"torrent_get", "session_stats", "session_get_version">>
                       /\ ~HandlerRunning))
    /\ [][/\ (Received /\ FailsCall(Seen) /\ wstage \in SnapshotStages)
               => /\ called' = called
                  /\ wpc' = "recv"
                  /\ emitted' = Append(emitted, SnapshotEvent(Err(ErrorOf(Seen))))
          /\ (Applied /\ Head(events).type = "Snapshot" /\ ~Head(events).result.ok)
               => /\ app'.snapshot = app.snapshot
                  /\ app'.filtered_indices = app.filtered_indices
                  /\ app'.list_selected = app.list_selected
                  /\ app'.selected_id = app.selected_id
                  /\ app'.pending_focus = app.pending_focus]_vars

\* a failed snapshot was applied over a loaded list and a pending focus
C10_Witness ==
    /\ IsSome(app.snapshot)
    /\ Unwrap(app.snapshot).torrents /= <<>>
    /\ IsSome(app.list_selected)
    /\ IsSome(app.pending_focus)
    /\ IsSome(app.status)
    /\ Unwrap(app.status).text[1] = "RPC error"

\* --------------------------------------- claims about the reducer's events

\* the App after the reducer has processed event e in the current state
After(e) == process_event(app, e).app

\* torrent id is at some position of a's filtered view
InView(a, id) ==
    \E pos \in 1..Len(a.filtered_indices) :
        TorrentAt(a, a.filtered_indices[pos]).torrent_id = id

IsKeyPress(e) == e.type = "Input" /\ e.event.kind = "Key"

IsPlainD(e) == IsKeyPress(e) /\ e.event.key = Key("d", {})

IsQuitChord(e) ==
    IsKeyPress(e) /\ e.event.key.code = "c" /\ "CONTROL" \in e.event.key.modifiers

\* e changes the filter: Enter in Filter mode, or Esc in Normal mode over a
\* filter that is not empty
ChangesFilter(e) ==
    /\ IsKeyPress(e)
    /\ ~IsQuitChord(e)
    /\ \/ app.mode.kind = "Filter" /\ e.event.key.code = "Enter"
       \/ app.mode.kind = "Normal" /\ e.event.key.code = "Esc" /\ app.filter_text /= <<>>

\* e makes the reducer rebuild the filtered view
Rebuilds(e) == (e.type = "Snapshot" /\ e.result.ok) \/ ChangesFilter(e)

\* C11: a pending focus stays set until the next successful snapshot is
\* applied; that snapshot clears it and selects the torrent if it is in the
\* filtered view; no other event (failed snapshot, key press, filter apply or
\* clear, paste, tick) takes it away.
C11_PendingFocusWaitsForSnapshot ==
    \A e \in SelectionEvents :
        IsSome(app.pending_focus) =>
            IF e.type = "Snapshot" /\ e.result.ok
            THEN /\ After(e).pending_focus = None
                 /\ InView(After(e), Unwrap(app.pending_focus))
                       => After(e).selected_id = app.pending_focus
            ELSE e.type /= "FocusTorrent" => After(e).pending_focus = app.pending_focus

\* C12: when the filtered view is rebuilt and no pending focus is found in
\* it, the torrent selected before stays selected if it is still in the view,
\* also when a pending focus was set but is absent from the view.
C12_SelectedIdKeptOnRebuild ==
    \A e \in SelectionEvents :
        (/\ Rebuilds(e)
         /\ IsSome(app.selected_id)
         /\ InView(After(e), Unwrap(app.selected_id))
         /\ ~(IsSome(app.pending_focus) /\ InView(After(e), Unwrap(app.pending_focus))))
            => After(e).selected_id = app.selected_id

\* C13: when the filtered view is rebuilt, is not empty and holds neither the
\* pending focus nor the torrent selected before, position 0 is selected.
C13_FallbackIsPositionZero ==
    \A e \in SelectionEvents :
        (/\ Rebuilds(e)
         /\ After(e).filtered_indices /= <<>>
         /\ ~(IsSome(app.pending_focus) /\ InView(After(e), Unwrap(app.pending_focus)))
         /\ ~(IsSome(app.selected_id) /\ InView(After(e), Unwrap(app.selected_id))))
            => /\ After(e).list_selected = Some(0)
               /\ After(e).selected_id
                     = Some(TorrentAt(After(e), After(e).filtered_indices[1]).torrent_id)


\* C14: in every reachable state the selection index, when present, is below
\* the length of the filtered view.
C14_SelectionIndexInRange ==
    IsSome(app.list_selected) => Unwrap(app.list_selected) < Len(app.filtered_indices)

\* the last of three rows is selected while a filter hides one torrent of a
\* longer list: a movement key has acted and a rebuild has shortened the view
C14_Witness ==
    /\ Len(app.filtered_indices) = 2
    /\ app.list_selected = Some(1)
    /\ app.filter_text /= <<>>
    /\ Len(Unwrap(app.snapshot).torrents) = 3

\* C15: after a filter change (Enter in Filter mode, or Esc clearing a
\* non-empty filter in Normal mode) the selection is present exactly when the
\* filtered view is not empty.
C15_SelectionIffViewNonEmpty ==
    \A e \in SelectionEvents :
        ChangesFilter(e) =>
            /\ IsSome(After(e).list_selected) <=> After(e).filtered_indices /= <<>>
            /\ IsSome(After(e).selected_id) <=> After(e).filtered_indices /= <<>>

\* a filter that matches nothing is about to be applied over a selected row
C15_Witness ==
    /\ app.mode.kind = "Filter"
    /\ IsSome(app.list_selected)
    /\ IsSome(app.selected_id)
    /\ After(KeyEvent("Enter", {})).filtered_indices = <<>>
    /\ After(KeyEvent("Enter", {})).list_selected = None

\* C16: in every reachable state the filtered view lists, in strictly
\* increasing order, exactly the positions of the snapshot's torrents whose
\* lowercased name contains the lowercased filter (all of them when the
\* filter is empty).
C16_FilteredViewIsTheMatches ==
    LET torrents == IF IsSome(app.snapshot) THEN Unwrap(app.snapshot).torrents ELSE <<>>
        view == app.filtered_indices
    IN  /\ \A i \in 1..(Len(view) - 1) : view[i] < view[i + 1]
        /\ {view[i] : i \in DOMAIN view}
              = {idx \in 0..(Len(torrents) - 1) :
                    \/ app.filter_text = <<>>
                    \/ contains(to_lowercase(torrents[idx + 1].name),
                                to_lowercase(app.filter_text))}

\* the filter B, typed in upper case, shows Beta alone out of three torrents
C16_Witness ==
    /\ app.filter_text = <<"B">>
    /\ IsSome(app.snapshot)
    /\ Len(Unwrap(app.snapshot).torrents) = 3
    /\ app.filtered_indices = <<1>>

C18_PasteKeepsModals ==
    LET after == After(PasteEvent)
    IN  CASE app.mode.kind = "Normal" -> after.mode = PromptMode(PasteEvent.event.data)
          [] app.mode.kind \in {"Filter", "Prompt"} ->
                after.mode = [app.mode EXCEPT !.buffer = @ \o PasteEvent.event.data]
          [] OTHER -> after.mode = app.mode

\* C19: the first plain d arms deletion and sends no command; once armed,
\* any other key press disarms it (Ctrl+c, which quits, aside), so the
\* Confirm dialog opens only on a plain d whose preceding key press was also
\* a plain d.
C19_OnlyConsecutiveDsOpenConfirm ==
    \A e \in ArmingEvents :
        (IsKeyPress(e) /\ ~app.should_quit) =>
            LET r == process_event(app, e)
            IN  /\ (IsPlainD(e) /\ app.mode.kind = "Normal" /\ ~app.delete_armed) =>
                      (r.app.delete_armed /\ r.command = None /\ r.app.mode.kind = "Normal")
                /\ (app.delete_armed /\ ~IsPlainD(e) /\ ~IsQuitChord(e)) =>
                      ~r.app.delete_armed
                /\ (r.app.mode.kind = "Confirm" /\ app.mode.kind /= "Confirm") =>
                      (IsPlainD(e) /\ last_key = Some(Key("d", {})))

\* C20: a plain d pressed while deletion is armed opens the Confirm dialog
\* only within the arming window; once the deadline has passed it does not
\* open the dialog and arms again.
C20_ConfirmOnlyWithinWindow ==
    \A e \in ArmingEvents :
        (/\ IsPlainD(e)
         /\ ~app.should_quit
         /\ app.mode.kind = "Normal"
         /\ app.delete_armed
         /\ IsSome(app.delete_armed_until)
         /\ now >= Unwrap(app.delete_armed_until))
            => (After(e).mode.kind /= "Confirm" /\ After(e).delete_armed)

\* C21: the Confirm dialog opens on the torrent selected at that moment with
\* delete_data false and stays as it is while open, whatever snapshot is
\* applied; y or Enter sends one RemoveTorrent with the dialog's id and name and
\* delete_data false; n or Esc sends nothing; no RemoveTorrent sent has
\* delete_data true.
C21_ConfirmSendsCapturedTarget ==
    \A e \in ArmingEvents :
        ~app.should_quit =>
            LET r == process_event(app, e)
                opened == app.mode.kind /= "Confirm" /\ r.app.mode.kind = "Confirm"
                open == app.mode.kind = "Confirm"
                pressed(codes) == IsKeyPress(e) /\ ~IsQuitChord(e) /\ e.event.key.code \in codes
            IN  /\ opened =>
                      /\ IsSome(current_torrent(app))
                      /\ r.app.mode.target_id = Unwrap(current_torrent(app)).torrent_id
                      /\ r.app.mode.target_name = Unwrap(current_torrent(app)).name
                      /\ r.app.mode.delete_data = FALSE
                /\ (open /\ r.app.mode.kind = "Confirm") => r.app.mode = app.mode
                /\ (open /\ pressed({"y", "Enter"})) =>
                      /\ r.command = Some([type |-> "RemoveTorrent",
                                           id |-> app.mode.target_id,
                                           name |-> app.mode.target_name,
                                           delete_data |-> FALSE])
                      /\ r.app.mode = NormalMode
                /\ (open /\ pressed({"n", "Esc"})) =>
                      (r.command = None /\ r.app.mode = NormalMode)
                /\ (IsSome(r.command) /\ Unwrap(r.command).type = "RemoveTorrent") =>
                      /\ open /\ pressed({"y", "Enter"})
                      /\ Unwrap(r.command).delete_data = FALSE

\* the dialog for alpha (id 1) is open over a list that no longer holds it,
\* and y sends the removal of id 1
C21_Witness ==
    /\ app.mode.kind = "Confirm"
    /\ app.mode.target_id = 1
    /\ IsSome(app.snapshot)
    /\ \A i \in DOMAIN Unwrap(app.snapshot).torrents :
           Unwrap(app.snapshot).torrents[i].torrent_id /= 1
    /\ process_event(app, KeyEvent("y", {})).command
          = Some([type |-> "RemoveTorrent", id |-> 1, name |-> NameAlpha,
                  delete_data |-> FALSE])

\* ------------------------------------------ claims about the preferences form

\* the mode shows a Ready preferences form
ReadyForm(a) == a.mode.kind = "Preferences" /\ a.mode.view.kind = "Ready"

\* C22: applying Preferences(Ok(p)) makes p the cache; a Ready form takes p
\* as its prefs, loses dirty, saving and any open editor, and shows
\* 'Preferences saved' if saving was set and 'Preferences reloaded' otherwise;
\* a Loading or Error view becomes a fresh Ready form on p; nothing else
\* changes.
C22_LoadedPreferencesReplaceForm ==
    \A e \in PrefsEvents :
        (e.type = "Preferences" /\ e.result.ok) =>
            LET p == e.result.value
                after == After(e)
            IN  /\ after.preferences_cache = Some(p)
                /\ [after EXCEPT !.preferences_cache = None, !.mode = NormalMode]
                      = [app EXCEPT !.preferences_cache = None, !.mode = NormalMode]
                /\ IF ReadyForm(app)
                   THEN /\ ReadyForm(after)
                        /\ after.mode.view.form =
                              [app.mode.view.form EXCEPT
                                  !.prefs = p, !.dirty = FALSE, !.saving = FALSE,
                                  !.editing = None,
                                  !.message = Some([text |->
                                      IF app.mode.view.form.saving
                                      THEN "Preferences saved" ELSE "Preferences reloaded"])]
                   ELSE IF app.mode.kind = "Preferences"
                   THEN after.mode = PreferencesMode(ReadyView(
                            [prefs |-> p, selected |-> 0, editing |-> None, dirty |-> FALSE,
                             saving |-> FALSE, message |-> None]))
                   ELSE after.mode = app.mode

\* a form that is being saved has its editor open on another change
C22_Witness ==
    /\ ReadyForm(app)
    /\ app.mode.view.form.saving
    /\ app.mode.view.form.dirty
    /\ IsSome(app.mode.view.form.editing)
    /\ \E e \in PrefsEvents :
           /\ e.type = "Preferences" /\ e.result.ok
           /\ After(e).mode.view.form.message = Some([text |-> "Preferences saved"])
           /\ After(e).mode.view.form.prefs /= app.mode.view.form.prefs

\* C23: s on a Ready form with no editor open sends UpdatePreferences with the
\* form's prefs and sets saving exactly when the form is dirty and not saving;
\* otherwise nothing is sent and only the message changes, to 'No changes to
\* save' whenever the form is not dirty.
C23_SaveOnlyWhenDirty ==
    (ReadyForm(app) /\ ~IsSome(app.mode.view.form.editing) /\ ~app.should_quit) =>
        LET form == app.mode.view.form
            r == process_event(app, KeyEvent("s", {}))
            after == r.app.mode.view.form
        IN  /\ ReadyForm(r.app)
            /\ [r.app EXCEPT !.mode = NormalMode] = [app EXCEPT !.mode = NormalMode]
            /\ IF form.dirty /\ ~form.saving
               THEN /\ r.command = Some([type |-> "UpdatePreferences", prefs |-> form.prefs])
                    /\ after.saving
                    /\ [after EXCEPT !.message = None, !.saving = FALSE] =
                          [form EXCEPT !.message = None, !.saving = FALSE]
               ELSE /\ r.command = None
                    /\ [after EXCEPT !.message = None] = [form EXCEPT !.message = None]
                    /\ ~form.dirty => after.message = Some([text |-> "No changes to save"])

\* s has just sent a changed form: it is saving and the command went out
C23_Witness ==
    /\ ReadyForm(app)
    /\ app.mode.view.form.saving
    /\ app.mode.view.form.dirty
    /\ ~IsSome(app.mode.view.form.editing)
    /\ sent = Some([type |-> "UpdatePreferences", prefs |-> app.mode.view.form.prefs])
    /\ process_event(app, KeyEvent("s", {})).command = None

\* C24: r or R on a dirty Ready form sends nothing and keeps prefs, dirty and
\* the Ready view (with no editor open, everything but the message); the view
\* becomes Loading and FetchPreferences is sent only for a form that is not
\* dirty, and always so when no editor is open.
C24_RefreshRejectedWhenDirty ==
    \A code \in {"r", "R"} :
        (ReadyForm(app) /\ ~app.should_quit) =>
            LET form == app.mode.view.form
                r == process_event(app, KeyEvent(code, {}))
            IN  /\ form.dirty =>
                      /\ r.command = None
                      /\ ReadyForm(r.app)
                      /\ r.app.mode.view.form.prefs = form.prefs
                      /\ r.app.mode.view.form.dirty
                      /\ ~IsSome(form.editing) =>
                            [r.app.mode.view.form EXCEPT !.message = None]
                               = [form EXCEPT !.message = None]
                /\ (~form.dirty /\ ~IsSome(form.editing)) =>
                      /\ r.app.mode = PreferencesMode(LoadingView)
                      /\ r.command = Some([type |-> "FetchPreferences"])
                /\ (~ReadyForm(r.app) \/ IsSome(r.command)) => ~form.dirty

\* r was pressed on a changed form: the change is kept and the form says why
C24_Witness ==
    /\ ReadyForm(app)
    /\ app.mode.view.form.dirty
    /\ ~IsSome(app.mode.view.form.editing)
    /\ app.mode.view.form.prefs /= Unwrap(app.preferences_cache)
    /\ app.mode.view.form.message
          = Some([text |-> "Save or cancel changes before refreshing"])

\* ------------------------------------------------ claims about the threads

\* the reducer presses the last key of the save scenario, s
PressesSave == step = Len(SaveScript) - 1 /\ step' = Len(SaveScript)

\* the reducer applies the Preferences event of a successful UpdatePreferences:
\* the one its handler sends together with the status 'Preferences updated'
UpdateReplyApplied ==
    /\ Len(events) >= 2
    /\ events' = Tail(events)
    /\ events[1].type = "Preferences" /\ events[1].result.ok
    /\ events[2] = StatusEvent(StatusUpdate("Success", "Preferences updated", <<>>))

\* C25: in the save scenario, whatever the interleaving with the worker's
\* events, pressing s sends UpdatePreferences with speed_limit_up 250 and
\* every other field as cached (for a cache whose speed_limit_up is 0, so
\* that the editor's initial text does not alter the number typed); and when
\* the reply of that update is applied the form is not dirty and shows
\* 'Preferences saved'.
C25_SaveScenarioSendsUpdate ==
    [][/\ (PressesSave /\ Unwrap(app.preferences_cache).speed_limit_up = 0) =>
             sent' = Some([type |-> "UpdatePreferences",
                           prefs |-> [Unwrap(app.preferences_cache)
                                         EXCEPT !.speed_limit_up = 250]])
       /\ (UpdateReplyApplied /\ step = Len(SaveScript)) =>
             /\ ReadyForm(app')
             /\ ~app'.mode.view.form.dirty
             /\ app'.mode.view.form.message = Some([text |-> "Preferences saved"])]_vars

\* C27: commands leave the command channel from its head, one at a time and
\* only when the worker is back at its receive; the worker's events are
\* appended to the event channel in the order it sent them, all of them by
\* the handler of the command in hand; the reducer takes events from the head
\* and applies each one in full before the next.
C27_CommandsAndEventsInOrder ==
    [][/\ cmds' /= cmds =>
             \/ /\ wpc = "recv" /\ cmds /= <<>>
                /\ cmds' = Tail(cmds)
                /\ wcmd' = Head(cmds)
             \/ \E c \in {sent'} \ {None} : cmds' = Append(cmds, Unwrap(c))
       /\ (wcmd' /= wcmd \/ (wpc = "recv" /\ wpc' /= "recv")) =>
             /\ wpc = "recv"
             /\ emitted' = <<>> \/ emitted' = SubSeq(events', Len(events) + 1, Len(events'))
       /\ events' /= events =>
             \/ /\ Len(events') >= Len(events)
                /\ SubSeq(events', 1, Len(events)) = events
                /\ \E k \in 0..Len(emitted') :
                      /\ SubSeq(emitted', 1, k) = (IF wpc = "recv" THEN <<>> ELSE emitted)
                      /\ SubSeq(emitted', k + 1, Len(emitted'))
                            = SubSeq(events', Len(events) + 1, Len(events'))
                /\ app' = app
             \/ /\ events /= <<>>
                /\ events' = Tail(events)
                /\ app' = process_event(app, Head(events)).app
                /\ UNCHANGED <<wcmd, emitted, cmds>>]_vars

\* the fetch sent by o and the update sent by s were handled in that order,
\* and their events wait on the event channel in that order
C27_Witness ==
    /\ step = Len(SaveScript)
    /\ wcmd.type = "UpdatePreferences"
    /\ cmds = <<>>
    /\ Len(events) = 3
    /\ events[1].type = "Preferences"
    /\ events[2].type = "Preferences"
    /\ events[3] = StatusEvent(StatusUpdate("Success", "Preferences updated", <<>>))

\* the worker leaves its receive with a command or a time-out in hand
LeavesReceive ==
    wpc = "recv" /\ wpc' /= "exit" /\ (wpc' /= "recv" \/ emitted' /= emitted \/ wcmd' /= wcmd)

\* C28: with polling on, the worker starts an automatic fetch only from a
\* receive that found the command queue empty; a receive that finds commands
\* queued returns the first of them, not a time-out.
C28_PollOnlyOnEmptyQueue ==
    [][LeavesReceive =>
          IF cmds = <<>>
          THEN poll_enabled /\ wcmd'.type = "Timeout"
          ELSE wcmd' = Head(cmds) /\ cmds' = Tail(cmds)]_vars

\* the commands queued were taken first; an automatic fetch, begun on the
\* empty queue, has come to its last RPC
C28_Witness ==
    /\ poll_enabled
    /\ wcmd.type = "Timeout"
    /\ wpc = "await"
    /\ wstage = "session_get_version"
    /\ cmds = <<>>

\* ------------------------------------------------ claims about the payloads

\* C29: the session_set payload carries the encryption mode in the words of
\* the dialect it is built for: Allow is "allowed" in JSON-RPC and "tolerated"
\* in the legacy dialect, Prefer and Require are "preferred" and "required" in
\* both; both "allowed" and "tolerated" decode to Allow.
C29_EncryptionPerDialect ==
    /\ from_rpc("allowed") = "Allow"
    /\ from_rpc("tolerated") = "Allow"
    /\ (IsSome(payload) /\ wstage = "session_set") =>
          LET body == Unwrap(payload)
              args == Unwrap(IF wproto = "Json" THEN body.params ELSE body.arguments)
              mode == wcmd.prefs.encryption_mode
          IN  args["encryption"] =
                 CASE mode = "Prefer" -> "preferred"
                   [] mode = "Require" -> "required"
                   [] mode = "Allow" -> IF wproto = "Json" THEN "allowed" ELSE "tolerated"

\* the id of a JSON-RPC payload, the tag of a legacy one
TagOf(body) == IF "id" \in DOMAIN body THEN body.id ELSE body.tag

\* C30: every payload built, the one of a legacy retry included, takes the
\* counter's value and advances the counter, so its tag is larger than that
\* of every payload built before; a request that goes out carries the payload
\* in hand, so only the resend after a 409 repeats a tag.
C30_TagsStrictlyIncrease ==
    [][/\ counter' >= counter
       /\ IsSome(payload) => TagOf(Unwrap(payload)) < counter
       /\ payload' /= payload =>
             /\ IsSome(payload')
             /\ TagOf(Unwrap(payload')) = counter
             /\ counter' = counter + 1
       /\ wire' /= wire =>
             /\ UNCHANGED <<payload, counter>>
             /\ Unwrap(wire').payload = Unwrap(payload)]_vars

\* the legacy retry of a call whose first attempt was sent twice, around a
\* 409: the retry's tag is above the tag both of those requests carried
C30_Witness ==
    /\ attempts = <<"Json", "Legacy">>
    /\ IsSome(session_id)
    /\ wpc = "send"
    /\ IsSome(wire)
    /\ Unwrap(wire).session_header = session_id
    /\ TagOf(Unwrap(wire).payload) < TagOf(Unwrap(payload))
    /\ TagOf(Unwrap(payload)) > 1

\* run has left its loop and dropped its ends of both channels
ChannelsClosed == app.should_quit /\ ~rpc_tx_alive /\ ~event_rx_alive

\* C26: once the reducer has quit and both channels are closed, the RPC
\* worker and the input reader both come to their end.
C26_ThreadsTerminate == ChannelsClosed ~> (wpc = "exit" /\ ipc = "exit")

\* the arguments a payload carries: params in JSON-RPC, arguments in legacy
ArgumentsOf(body) == IF "id" \in DOMAIN body THEN body.params ELSE body.arguments

\* C31: a payload built for JSON-RPC carries the call's method and arguments
\* as they are; one built for the legacy dialect carries the hyphenated
\* method, every entry of torrent_get's and session_get's fields array and
\* every key of session_set rewritten by the method's map (values and other
\* keys kept), torrent_remove's delete_local_data as delete-local-data, and
\* the arguments of the other methods as they are.
C31_LegacyTranslatorPerDialect ==
    IsSome(payload) =>
        LET call == StageCall(wcmd, wstage)
            body == Unwrap(payload)
            sent_args == ArgumentsOf(body)
            map(name) == IF call.method = "torrent_get" THEN legacy_torrent_field_name(name)
                         ELSE legacy_session_field_name(name)
        IN  IF wproto = "Json"
            THEN "id" \in DOMAIN body /\ body.method = call.method /\ sent_args = call.arguments
            ELSE /\ "tag" \in DOMAIN body
                 /\ <<call.method, body.method>> \in
                       {<<"session_get", "session-get">>, <<"session_set", "session-set">>,
                        <<"session_stats", "session-stats">>, <<"torrent_get", "torrent-get">>,
                        <<"torrent_add", "torrent-add">>,
                        <<"torrent_remove", "torrent-remove">>,
                        <<"torrent_start", "torrent-start">>,
                        <<"torrent_stop", "torrent-stop">>}
                 /\ IsSome(sent_args) = IsSome(call.arguments)
                 /\ IsSome(call.arguments) =>
                       LET before == Unwrap(call.arguments)
                           after == Unwrap(sent_args)
                       IN  CASE call.method \in {"torrent_get", "session_get"} ->
                                  /\ DOMAIN after = DOMAIN before
                                  /\ \A k \in DOMAIN before \ {"fields"} : after[k] = before[k]
                                  /\ "fields" \in DOMAIN before =>
                                        /\ Len(after["fields"]) = Len(before["fields"])
                                        /\ \A i \in DOMAIN before["fields"] :
                                               after["fields"][i] = map(before["fields"][i])
                             [] call.method = "session_set" ->
                                  /\ DOMAIN after = {map(k) : k \in DOMAIN before}
                                  /\ \A k \in DOMAIN before : after[map(k)] = before[k]
                             [] call.method = "torrent_remove" ->
                                  /\ DOMAIN after = (DOMAIN before \ {"delete_local_data"})
                                                     \cup {"delete-local-data"}
                                  /\ after["delete-local-data"] = before["delete_local_data"]
                                  /\ \A k \in DOMAIN before \ {"delete_local_data"} :
                                         after[k] = before[k]
                             [] OTHER -> after = before

\* a legacy torrent-get is in hand, its fields renamed
C31_Witness ==
    /\ IsSome(payload)
    /\ wproto = "Legacy"
    /\ use_json_rpc = FALSE
    /\ Unwrap(payload).method = "torrent-get"
    /\ \E i \in DOMAIN Unwrap(payload).arguments[1]["fields"] :
           Unwrap(payload).arguments[1]["fields"][i] = "downloadDir"

EnterIn(form, next, command, applied) ==
    /\ command = None
    /\ ReadyForm(next)
    /\ IF applied.ok
       THEN /\ next.mode.view.form.prefs = applied.value
            /\ next.mode.view.form.editing = None
            /\ next.mode.view.form.dirty
       ELSE /\ next.mode.view.form.prefs = form.prefs
            /\ next.mode.view.form.dirty = form.dirty
            /\ next.mode.view.form.editing = form.editing
            /\ next.mode.view.form.message = Some(applied.err)

\* C32: Enter in the inline editor either commits or changes nothing but the
\* message: on a text that fails to parse the preferences and the dirty flag
\* are as before, the editor stays open with its buffer and the parse error
\* is the form's message; on a text that parses the value is applied, the
\* editor closes and the form is dirty.
C32_EnterCommitsOrKeepsEditor ==
    (ReadyForm(app) /\ IsSome(app.mode.view.form.editing)) =>
        EnterIn(app.mode.view.form,
                process_event(app, KeyEvent("Enter", {})).app,
                process_event(app, KeyEvent("Enter", {})).command,
                apply_input(app.mode.view.form.editing[1].field, app.mode.view.form.prefs,
                            app.mode.view.form.editing[1].buffer))

C32_Witness ==
    /\ ReadyForm(app)
    /\ app.mode.view.form.editing = Some([field |-> "PeerLimitGlobal", buffer |-> <<"0">>])
    /\ app.mode.view.form.message =
           Some([text |-> "must be greater than zero", label |-> "max peers"])
    /\ ~app.mode.view.form.dirty

\* the preference a numeric field of the form stores its value in
LimitOf(field) ==
    CASE field = "SpeedLimitUp" -> "speed_limit_up"
      [] field = "SpeedLimitDown" -> "speed_limit_down"
      [] field = "IdleSeedingLimit" -> "idle_seeding_limit"
      [] field = "PeerLimitPerTorrent" -> "peer_limit_per_torrent"
      [] field = "PeerLimitGlobal" -> "peer_limit_global"

\* Enter on `field` showing the integer `typed`, with `next` the form after it
StoresTyped(field, typed, form, next) ==
    LET peers == field \in {"PeerLimitPerTorrent", "PeerLimitGlobal"}
        zero == typed.hi = 0 /\ typed.lo = 0
        rejected == next.editing = form.editing /\ next.prefs = form.prefs
    IN  IF (typed.negative /\ ~zero) \/ (peers /\ zero)
        THEN rejected
        ELSE /\ next.editing = None
             /\ next.prefs[LimitOf(field)] \div 65536 = typed.hi
             /\ next.prefs[LimitOf(field)] % 65536 = typed.lo
             /\ peers => next.prefs[LimitOf(field)] > 0

\* C33: a numeric limit committed in the inline editor is stored equal to the
\* integer typed: a negative speed or idle limit and a peer limit that is not
\* positive are rejected, and every other integer is stored as typed, so that
\* a peer limit stored by the editor is greater than zero.
C33_StoredLimitEqualsTyped ==
    (/\ ReadyForm(app)
     /\ IsSome(app.mode.view.form.editing)
     /\ app.mode.view.form.editing[1].field \in
            {"SpeedLimitUp", "SpeedLimitDown", "IdleSeedingLimit", "PeerLimitPerTorrent",
             "PeerLimitGlobal"}
     /\ IsSome(parse_i64(trim(app.mode.view.form.editing[1].buffer)))) =>
        StoresTyped(app.mode.view.form.editing[1].field,
                    Unwrap(parse_i64(trim(app.mode.view.form.editing[1].buffer))),
                    app.mode.view.form,
                    process_event(app, KeyEvent("Enter", {})).app.mode.view.form)

\* the key leaves the quit flag, the mode and the selection of `a` as they
\* are in `next`, and sends nothing
KeyIgnored(a, next, command) ==
    /\ command = None
    /\ next.should_quit = a.should_quit
    /\ next.mode = a.mode
    /\ next.list_selected = a.list_selected
    /\ next.selected_id = a.selected_id

\* C34: in Normal mode the bindings q, r, p, a, /, j, k, o and ? act without
\* modifiers only: pressed with Ctrl or with Alt, none of them quits, sends a
\* command, changes the mode or moves the selection.
C34_BindingsNeedNoModifier ==
    app.mode.kind = "Normal" =>
        \A c \in {"q", "r", "p", "a", "/", "j", "k", "o", "?"} :
            \A held \in {{"CONTROL"}, {"ALT"}} :
                KeyIgnored(app, process_event(app, KeyEvent(c, held)).app,
                           process_event(app, KeyEvent(c, held)).command)

\* C35: after every reducer event selected_id and the selection index agree:
\* both are absent, or the index is within the filtered view and the torrent
\* at that position has the id selected_id; and every index of the filtered
\* view is a position of the current snapshot.
C35_SelectionAgreesWithView ==
    LET torrents == IF IsSome(app.snapshot) THEN Unwrap(app.snapshot).torrents ELSE <<>>
        view == app.filtered_indices
    IN  /\ \/ app.list_selected = None /\ app.selected_id = None
           \/ /\ IsSome(app.list_selected)
              /\ IsSome(app.selected_id)
              /\ Unwrap(app.list_selected) < Len(view)
              /\ torrents[view[Unwrap(app.list_selected) + 1] + 1].torrent_id
                    = Unwrap(app.selected_id)
        /\ \A i \in DOMAIN view : view[i] >= 0 /\ view[i] < Len(torrents)

\* the second of two rows left by a filter is selected in a list of three
C35_Witness ==
    /\ IsSome(app.snapshot)
    /\ Len(Unwrap(app.snapshot).torrents) = 3
    /\ app.filtered_indices = <<0, 1>>
    /\ app.filter_text /= <<>>
    /\ app.list_selected = Some(1)
    /\ app.selected_id = Some(2)

\* the reducer applies a successful Preferences event to a form that is
\* saving, which clears saving and shows 'Preferences saved'
SaveReported ==
    /\ events /= <<>>
    /\ events' = Tail(events)
    /\ events[1].type = "Preferences" /\ events[1].result.ok
    /\ ReadyForm(app) /\ app.mode.view.form.saving
    /\ ReadyForm(app') /\ ~app'.mode.view.form.saving
    /\ app'.mode.view.form.message = Some([text |-> "Preferences saved"])

\* C36: a successful Preferences event reports a save (clears saving, shows
\* 'Preferences saved') only when it is the reply of the UpdatePreferences
\* that set saving; the reply of an earlier FetchPreferences reports none.
C36_OnlyUpdateReplyReportsSave ==
    [][SaveReported => UpdateReplyApplied]_vars

\* C37: perform_request resends on every 409 that carries a token, however
\* many resends came before, and on nothing else; a client call returns only
\* in a step that sees a response other than such a 409 (a failed send
\* included); the worker takes no other command while the call runs; and a
\* call returns once the daemon gives such a response.
C37_ResendsWithoutLimit ==
    /\ [][Received => (ConflictWithToken(Seen) <=> Resent)]_vars
    /\ [][(wpc /= "recv" /\ wpc' = "recv") => (Received /\ ~ConflictWithToken(Seen))]_vars
    /\ [][wpc /= "recv" => (wcmd' = wcmd /\ cmds' = cmds)]_vars
    /\ (wpc = "await" ~> wpc = "recv")

\* a 409 with a token answers a request that already carried the token of an
\* earlier 409, and the request goes out again
C37_Witness ==
    /\ wpc = "send"
    /\ resp /= None
    /\ ConflictWithToken(Unwrap(resp))
    /\ IsSome(Unwrap(wire).session_header)
    /\ Unwrap(wire).payload = Unwrap(payload)
    /\ result = None

\* C38: the reducer sends a command only while it handles a key press: a
\* tick, a snapshot, a status, a focus request, a preferences reply, a paste
\* or any other input sends none, whatever the mode.
C38_OnlyKeyPressesSend ==
    \A e \in UiEvents \cup SelectionEvents \cup PrefsEvents
             \cup {StatusEvent(StatusUpdate("Success", "Preferences updated", <<>>))} :
        ~IsKeyPress(e) => process_event(app, e).command = None

\* a failed preferences reply has turned the Loading view into the Error
\* view, and no retry was sent
C38_Witness ==
    /\ app.mode.kind = "Preferences"
    /\ app.mode.view.kind = "Error"
    /\ sent = None

\* Preferences(Err(err)) applied to `a` gives `next`
ErrorApplied(a, next, err) ==
    /\ next.preferences_cache = a.preferences_cache
    /\ a.mode.kind = "Preferences" =>
          /\ next.mode.kind = "Preferences"
          /\ IF a.mode.view.kind = "Ready"
             THEN /\ next.mode.view.kind = "Ready"
                  /\ next.mode.view.form.prefs = a.mode.view.form.prefs
                  /\ next.mode.view.form.dirty = a.mode.view.form.dirty
                  /\ ~next.mode.view.form.saving
                  /\ (a.mode.view.form.saving /\ a.mode.view.form.editing = None) =>
                        process_event(next, KeyEvent("s", {})).command
                           = Some([type |-> "UpdatePreferences",
                                   prefs |-> a.mode.view.form.prefs])
             ELSE next.mode.view = ErrorView(err)

\* C39: a Preferences(Err) event applied to a Ready form leaves it Ready
\* with its prefs and its dirty flag and clears saving, so that s sends the
\* save again; applied to a Loading or Error view it gives Error(message);
\* the cache is unchanged in every case.
C39_ErrorKeepsReadyForm ==
    ErrorApplied(app, process_event(app, PreferencesEvent(Err(HttpError))).app, HttpError)

\* the reply to a save has failed: the form is still dirty, not saving, and
\* shows the error
C39_Witness ==
    /\ ReadyForm(app)
    /\ app.mode.view.form.dirty
    /\ ~app.mode.view.form.saving
    /\ app.mode.view.form.message = Some(HttpError)

Saving == ReadyForm(app) /\ app.mode.view.form.saving

\* C40: while the modal stays open a form that is saving is eventually not
\* saving any more, every RPC call returning: the worker sends exactly one
\* Preferences event for an UpdatePreferences it has handled, and a
\* Preferences event of either kind applied to a Ready form clears saving.
C40_SavingEventuallyCleared ==
    /\ Saving ~> (~Saving \/ app.mode.kind /= "Preferences")
    /\ [][(Saving /\ events /= <<>> /\ events' = Tail(events)
             /\ events[1].type = "Preferences") => ~Saving']_vars
    /\ []((wcmd.type = "UpdatePreferences" /\ wpc = "recv")
             => Cardinality({i \in DOMAIN emitted : emitted[i].type = "Preferences"}) = 1)

\* the save has failed at the daemon: the update's only event, an error, was
\* applied and the form, still dirty, is no longer saving
C40_Witness ==
    /\ step = Len(SaveScript)
    /\ wcmd.type = "UpdatePreferences"
    /\ wpc = "recv"
    /\ emitted = <<PreferencesEvent(Err(HttpError))>>
    /\ events = <<>>
    /\ ReadyForm(app)
    /\ app.mode.view.form.dirty
    /\ ~app.mode.view.form.saving

====
